---- MODULE Spec2Model ----
(***************************************************************************)
(* Model of the positional document-edit compiler of gdocs/docs_tools.py:  *)
(* modify_doc_content (edit_text) and insert_doc_elements, together with   *)
(* the flat index space of the remote document the built batches address.  *)
(*                                                                         *)
(* Optional (None-able) Python values are modelled as sequences of length  *)
(* at most one: <<>> is None, <<v>> is the value v.                        *)
(* A text is a sequence of code points; Len(text) is Python's len(text).   *)
(* The document is a sequence of UTF-16 code units; position p of the      *)
(* document is element p+1 of the sequence, position 0 holds the section   *)
(* marker "S".                                                             *)
(*                                                                         *)
(* Three specifications: Spec, the public document operations, each one    *)
(* action; SpecParser, the text extraction of get_doc_content over         *)
(* document trees; SpecTable, the steps of one run of the table manager    *)
(* with the table laid out unit by unit.                                   *)
(***************************************************************************)
EXTENDS Integers, Sequences, FiniteSets, TLC

\* ------------------------------------------------------------------------
\* Bounds of the model
\* ------------------------------------------------------------------------
MaxTextLen == 2
MaxIndex == 3
MaxDocLen == 3
MaxOthers == 1
\* text runs of a paragraph, table-in-cell levels, child tabs of a tab
MaxRuns == 2
MaxNesting == 6
MaxChildren == 2
\* x characters of a cell text
MaxCellLen == 2

\* ------------------------------------------------------------------------
\* Optional values
\* ------------------------------------------------------------------------
None == <<>>

Some(v) == <<v>>

IsNone(o) == o = <<>>

Val(o) == o[1]

Opt(S) == {None} \cup {Some(v) : v \in S}

\* ------------------------------------------------------------------------
\* Texts and the index model
\* ------------------------------------------------------------------------
\* Code points a caller may send: "x" is a character of the Basic
\* Multilingual Plane (one UTF-16 code unit), "W" a supplementary character
\* (two code units, the surrogate pair "Wh" "Wl").
CodePoints == {"x", "W"}

RECURSIVE SeqsUpTo(_, _)
SeqsUpTo(S, n) ==
    IF n = 0 THEN {<<>>}
    ELSE LET shorter == SeqsUpTo(S, n - 1)
         IN  shorter \cup {Append(s, c) : s \in {t \in shorter : Len(t) = n - 1}, c \in S}

Texts == SeqsUpTo(CodePoints, MaxTextLen)

\* The UTF-16 code units one code point occupies in the document.
Utf16Units(c) == IF c = "W" THEN <<"Wh", "Wl">> ELSE <<c>>

\* The UTF-16 encoding of a text: what insertText places in the document.
RECURSIVE Utf16(_)
Utf16(t) == IF t = <<>> THEN <<>> ELSE Utf16Units(Head(t)) \o Utf16(Tail(t))

\* ------------------------------------------------------------------------
\* Edit Request Builder (gdocs.docs_helpers)
\* ------------------------------------------------------------------------
create_insert_text_request(index, text) ==
    [kind |-> "insertText", index |-> index, text |-> text]

create_delete_range_request(start_index, end_index) ==
    [kind |-> "deleteContentRange", startIndex |-> start_index, endIndex |-> end_index]

create_format_text_request(start_index, end_index, bold, font_size) ==
    [kind |-> "updateTextStyle", startIndex |-> start_index, endIndex |-> end_index,
     bold |-> bold, font_size |-> font_size]

create_bullet_list_request(start_index, end_index, list_type) ==
    [kind |-> "createParagraphBullets", startIndex |-> start_index, endIndex |-> end_index,
     list_type |-> list_type]

create_insert_table_request(index, rows, columns) ==
    [kind |-> "insertTable", index |-> index, rows |-> rows, columns |-> columns]

create_insert_page_break_request(index) ==
    [kind |-> "insertPageBreak", index |-> index]

create_insert_image_request(index, image_uri) ==
    [kind |-> "insertInlineImage", index |-> index, uri |-> image_uri]

create_find_replace_request(find_text, replace_text, match_case) ==
    [kind |-> "replaceAllText", find |-> find_text, replace |-> replace_text,
     match_case |-> match_case]

\* ------------------------------------------------------------------------
\* ValidationManager (gdocs.managers)
\* ------------------------------------------------------------------------
validate_document_id(document_id) == document_id # ""

validate_text_formatting_params(bold, font_size) == ~IsNone(bold) \/ ~IsNone(font_size)

\* start_index must not be negative and, when end_index is given,
\* start_index < end_index must hold.
validate_index_range(start_index, end_index) ==
    /\ start_index >= 0
    /\ IsNone(end_index) \/ Val(end_index) > start_index

validate_header_footer_params(section_type, header_footer_type) ==
    /\ section_type \in {"header", "footer"}
    /\ header_footer_type \in {"DEFAULT", "FIRST_PAGE_ONLY", "EVEN_PAGE"}

validate_text_content(content) == content # <<>>

\* A table is a non-empty list of non-empty rows of one length.
validate_table_data(table_data) ==
    /\ Len(table_data) > 0
    /\ \A r \in 1 .. Len(table_data) :
          Len(table_data[r]) > 0 /\ Len(table_data[r]) = Len(table_data[1])

validate_index(index) == index >= 0

\* Every entry names a known operation kind and carries its fields.
validate_batch_operations(operations) ==
    \A k \in 1 .. Len(operations) :
        \/ /\ operations[k].type = "insert_text"
           /\ ~IsNone(operations[k].index) /\ ~IsNone(operations[k].text)
        \/ /\ operations[k].type = "delete_text"
           /\ ~IsNone(operations[k].start_index) /\ ~IsNone(operations[k].end_index)

\* ------------------------------------------------------------------------
\* modify_doc_content, operation edit_text
\* ------------------------------------------------------------------------
\* Python truthiness of an Optional[int].
Truthy(o) == ~IsNone(o) /\ Val(o) # 0

\* any([bold is not None, italic is not None, underline is not None,
\*      font_size, font_family]); italic and underline are tested like bold,
\* font_family like font_size.
HasFormatting(bold, font_size) == ~IsNone(bold) \/ Truthy(font_size)

\* end_index is not None and end_index > start_index
IsReplace(start_index, end_index) == ~IsNone(end_index) /\ Val(end_index) > start_index

\* TextRequests with the shifted delete of the index-0 branch starting at
\* len(text) instead of 1 + len(text).
TextRequests_DeleteFromLen(start_index, end_index, text) ==
    IF IsReplace(start_index, end_index)
    THEN IF start_index = 0
         THEN LET adjusted_end == Val(end_index) + Len(text)
              IN  << create_insert_text_request(1, text),
                     create_delete_range_request(Len(text), adjusted_end) >>
         ELSE << create_delete_range_request(start_index, Val(end_index)),
                 create_insert_text_request(start_index, text) >>
    ELSE LET actual_index == IF start_index = 0 THEN 1 ELSE start_index
         IN  << create_insert_text_request(actual_index, text) >>

\* TextRequests with the end of the index-0 delete left unshifted.
TextRequests_EndNotAdjusted(start_index, end_index, text) ==
    IF IsReplace(start_index, end_index)
    THEN IF start_index = 0
         THEN LET adjusted_end == Val(end_index)
              IN  << create_insert_text_request(1, text),
                     create_delete_range_request(1 + Len(text), adjusted_end) >>
         ELSE << create_delete_range_request(start_index, Val(end_index)),
                 create_insert_text_request(start_index, text) >>
    ELSE LET actual_index == IF start_index = 0 THEN 1 ELSE start_index
         IN  << create_insert_text_request(actual_index, text) >>

\* TextRequests with the ordinary replace inserting before it deletes.
TextRequests_InsertFirst(start_index, end_index, text) ==
    IF IsReplace(start_index, end_index)
    THEN IF start_index = 0
         THEN LET adjusted_end == Val(end_index) + Len(text)
              IN  << create_insert_text_request(1, text),
                     create_delete_range_request(1 + Len(text), adjusted_end) >>
         ELSE << create_insert_text_request(start_index, text),
                 create_delete_range_request(start_index, Val(end_index)) >>
    ELSE LET actual_index == IF start_index = 0 THEN 1 ELSE start_index
         IN  << create_insert_text_request(actual_index, text) >>

\* The text requests of edit_text, for text that is not None.
TextRequests(start_index, end_index, text) ==
    IF IsReplace(start_index, end_index)
    THEN IF start_index = 0
         THEN LET adjusted_end == Val(end_index) + Len(text)
              IN  << create_insert_text_request(1, text),
                     create_delete_range_request(1 + Len(text), adjusted_end) >>
         ELSE << create_delete_range_request(start_index, Val(end_index)),
                 create_insert_text_request(start_index, text) >>
    ELSE LET actual_index == IF start_index = 0 THEN 1 ELSE start_index
         IN  << create_insert_text_request(actual_index, text) >>

\* format_start and format_end before the index-0 and degenerate-range
\* adjustments.
ComputedFormatRange(start_index, end_index, text) ==
    IF IsNone(text)
    THEN [start |-> start_index, end |-> Val(end_index)]
    ELSE IF IsReplace(start_index, end_index)
         THEN [start |-> start_index, end |-> start_index + Len(Val(text))]
         ELSE LET actual_index == IF start_index = 0 THEN 1 ELSE start_index
              IN  [start |-> actual_index, end |-> actual_index + Len(Val(text))]

\* FormatRange without the widening of a degenerate range.
FormatRange_NoWidening(start_index, end_index, text) ==
    LET c == ComputedFormatRange(start_index, end_index, text)
        format_start == IF c.start = 0 THEN 1 ELSE c.start
    IN  [start |-> format_start, end |-> c.end]

\* format_start and format_end as passed to create_format_text_request.
FormatRange(start_index, end_index, text) ==
    LET c == ComputedFormatRange(start_index, end_index, text)
        format_start == IF c.start = 0 THEN 1 ELSE c.start
        format_end == IF c.end <= format_start THEN format_start + 1 ELSE c.end
    IN  [start |-> format_start, end |-> format_end]

FormatRequests(start_index, end_index, text, bold, font_size) ==
    LET f == FormatRange(start_index, end_index, text)
    IN  << create_format_text_request(f.start, f.end, bold, font_size) >>

\* The requests list edit_text has built when it reaches batchUpdate.
BuildEditText(start_index, end_index, text, bold, font_size) ==
    (IF IsNone(text) THEN <<>> ELSE TextRequests(start_index, end_index, Val(text)))
    \o (IF HasFormatting(bold, font_size)
        THEN FormatRequests(start_index, end_index, text, bold, font_size)
        ELSE <<>>)

Rejected(how) == [outcome |-> how, requests |-> <<>>, submit |-> FALSE]

Built(reqs) == [outcome |-> "built", requests |-> reqs, submit |-> TRUE]

\* edit_text asking for end_index only when there is no text to take the
\* format range from.
edit_text_EndOptionalWithText(document_id, start_index, end_index, text, bold, font_size) ==
    IF IsNone(start_index) THEN Rejected("raised")
    ELSE IF ~validate_document_id(document_id) THEN Rejected("error")
    ELSE IF IsNone(text) /\ ~HasFormatting(bold, font_size) THEN Rejected("error")
    ELSE IF HasFormatting(bold, font_size)
            /\ ~validate_text_formatting_params(bold, font_size) THEN Rejected("error")
    ELSE IF HasFormatting(bold, font_size) /\ IsNone(end_index) /\ IsNone(text)
         THEN Rejected("error")
    ELSE IF HasFormatting(bold, font_size)
            /\ ~validate_index_range(Val(start_index), end_index) THEN Rejected("error")
    ELSE Built(BuildEditText(Val(start_index), end_index, text, bold, font_size))

\* edit_text without the validate_index_range step.
edit_text_NoRangeCheck(document_id, start_index, end_index, text, bold, font_size) ==
    IF IsNone(start_index) THEN Rejected("raised")
    ELSE IF ~validate_document_id(document_id) THEN Rejected("error")
    ELSE IF IsNone(text) /\ ~HasFormatting(bold, font_size) THEN Rejected("error")
    ELSE IF HasFormatting(bold, font_size)
            /\ ~validate_text_formatting_params(bold, font_size) THEN Rejected("error")
    ELSE IF HasFormatting(bold, font_size) /\ IsNone(end_index) THEN Rejected("error")
    ELSE Built(BuildEditText(Val(start_index), end_index, text, bold, font_size))

\* edit_text up to the batchUpdate call: the validation cascade and the
\* request construction.  start_index is Optional here (payload.get).
edit_text(document_id, start_index, end_index, text, bold, font_size) ==
    IF IsNone(start_index) THEN Rejected("raised")
    ELSE IF ~validate_document_id(document_id) THEN Rejected("error")
    ELSE IF IsNone(text) /\ ~HasFormatting(bold, font_size) THEN Rejected("error")
    ELSE IF HasFormatting(bold, font_size)
            /\ ~validate_text_formatting_params(bold, font_size) THEN Rejected("error")
    ELSE IF HasFormatting(bold, font_size) /\ IsNone(end_index) THEN Rejected("error")
    ELSE IF HasFormatting(bold, font_size)
            /\ ~validate_index_range(Val(start_index), end_index) THEN Rejected("error")
    ELSE Built(BuildEditText(Val(start_index), end_index, text, bold, font_size))

\* ------------------------------------------------------------------------
\* insert_doc_elements
\* ------------------------------------------------------------------------
\* RedirectIndex without the bump.
RedirectIndex_Unchanged(index) == index

\* index == 0 is bumped to 1 before the operation is looked at.
RedirectIndex(index) == IF index = 0 THEN 1 ELSE index

\* The text a list item gets when the caller passes none ("List item").
DefaultListText == <<"L", "i", "s", "t", " ", "i", "t", "e", "m">>

\* if not text: text = "List item"
ListText(text) == IF IsNone(text) \/ Val(text) = <<>> THEN DefaultListText ELSE Val(text)

ListRequests_NewlineNotCounted(index, text, list_type) ==
    << create_insert_text_request(index, Append(text, "\n")),
       create_bullet_list_request(index, index + Len(text), list_type) >>

ListRequests(index, text, list_type) ==
    << create_insert_text_request(index, Append(text, "\n")),
       create_bullet_list_request(index, index + Len(text) + 1, list_type) >>

\* operation == "text_elements", with index already redirected.
text_elements(index, element_type, rows, columns, list_type, text) ==
    IF IsNone(element_type) THEN Rejected("raised")
    ELSE IF Val(element_type) = "table"
         THEN IF ~Truthy(rows) \/ ~Truthy(columns) THEN Rejected("error")
              ELSE Built(<< create_insert_table_request(index, Val(rows), Val(columns)) >>)
    ELSE IF Val(element_type) = "list"
         THEN IF IsNone(list_type) THEN Rejected("error")
              ELSE Built(ListRequests(index, ListText(text), Val(list_type)))
    ELSE IF Val(element_type) = "page_break"
         THEN Built(<< create_insert_page_break_request(index) >>)
    ELSE Rejected("error")

\* not (image_source.startswith('http://') or image_source.startswith('https://'))
IsDriveFile(image_source) == image_source \notin {"http://img", "https://img"}

\* operation == "image", with index already redirected.  drive is what the
\* Drive metadata lookup of a Drive file id gives: an image, a file of
\* another MIME type, or an exception; it is not read for a URL.
image(index, image_source, drive) ==
    IF IsNone(image_source) THEN Rejected("raised")
    ELSE IF IsDriveFile(Val(image_source))
         THEN IF drive = "image"
              THEN Built(<< create_insert_image_request(index, <<"drive", Val(image_source)>>) >>)
              ELSE Rejected("error")
    ELSE Built(<< create_insert_image_request(index, <<"url", Val(image_source)>>) >>)

\* operation == "table" up to the call of the TableOperationManager, with
\* index already redirected.
table(document_id, table_data, index) ==
    IF IsNone(table_data) \/ Val(table_data) = <<>> THEN Rejected("raised")
    ELSE IF ~validate_document_id(document_id) THEN Rejected("error")
    ELSE IF ~validate_table_data(Val(table_data)) THEN Rejected("error")
    ELSE IF ~validate_index(index) THEN Rejected("error")
    ELSE Built(<<>>)

\* ------------------------------------------------------------------------
\* create_doc
\* ------------------------------------------------------------------------
\* The batch create_doc submits to the document it has just created: the
\* content at index 1 when a content is given, and nothing otherwise.
create_doc(content) ==
    IF content # <<>>
    THEN Built(<< [kind |-> "insertText", index |-> 1, text |-> content] >>)
    ELSE [outcome |-> "ok", requests |-> <<>>, submit |-> FALSE]

\* ------------------------------------------------------------------------
\* modify_doc_content, operations find_replace and headers_footers
\* ------------------------------------------------------------------------
find_replace(find_text, replace_text, match_case) ==
    IF IsNone(find_text) \/ Val(find_text) = <<>> THEN Rejected("raised")
    ELSE IF IsNone(replace_text) THEN Rejected("raised")
    ELSE Built(<< create_find_replace_request(Val(find_text), Val(replace_text), match_case) >>)

\* The number of replacements find_replace reports for the reply list of
\* the service.  replies is None when the result has no 'replies'; a reply
\* has replaceAllText None when it carries no such result, and
\* occurrencesChanged None when the result carries no count.
Replacements_CountsReplies(replies) ==
    IF IsNone(replies) \/ Val(replies) = <<>> THEN 0 ELSE Len(Val(replies))

Replacements(replies) ==
    IF IsNone(replies) \/ Val(replies) = <<>> THEN 0
    ELSE LET reply == Val(replies)[1]
         IN  IF IsNone(reply.replaceAllText) THEN 0
             ELSE IF IsNone(Val(reply.replaceAllText).occurrencesChanged) THEN 0
             ELSE Val(Val(reply.replaceAllText).occurrencesChanged)

\* headers_footers up to the call of the HeaderFooterManager.
headers_footers(document_id, section_type, content, header_footer_type) ==
    IF IsNone(section_type) THEN Rejected("raised")
    ELSE IF IsNone(content) \/ Val(content) = <<>> THEN Rejected("raised")
    ELSE IF ~validate_document_id(document_id) THEN Rejected("error")
    ELSE IF ~validate_header_footer_params(Val(section_type), header_footer_type)
         THEN Rejected("error")
    ELSE IF ~validate_text_content(Val(content)) THEN Rejected("error")
    ELSE Built(<<>>)

\* ------------------------------------------------------------------------
\* manage_doc_operations, operation batch_update
\* ------------------------------------------------------------------------
\* BatchOperationManager: one request per caller-supplied operation, the
\* indices as the caller gave them.
OperationRequest(op) ==
    IF op.type = "insert_text"
    THEN create_insert_text_request(Val(op.index), Val(op.text))
    ELSE create_delete_range_request(Val(op.start_index), Val(op.end_index))

OperationRequests(operations) ==
    [k \in 1 .. Len(operations) |-> OperationRequest(operations[k])]

batch_update(document_id, operations) ==
    IF IsNone(operations) \/ Val(operations) = <<>> THEN Rejected("raised")
    ELSE IF ~validate_document_id(document_id) THEN Rejected("error")
    ELSE IF ~validate_batch_operations(Val(operations)) THEN Rejected("error")
    ELSE Built(OperationRequests(Val(operations)))

\* ------------------------------------------------------------------------
\* The document service: a batch is applied in list order, each request
\* against the index space left by the requests before it, and is accepted
\* or rejected as a whole.
\* ------------------------------------------------------------------------
DocEnd(d) == Len(d)

\* Position i falls between the two code units of a surrogate pair.
SplitsPair(d, i) == i >= 1 /\ i < Len(d) /\ d[i] = "Wh"

InsertUnits(d, i, units) == SubSeq(d, 1, i) \o units \o SubSeq(d, i + 1, Len(d))

DeleteUnits(d, s, e) == SubSeq(d, 1, s) \o SubSeq(d, e + 1, Len(d))

ValidInsertIndex(d, i) == i >= 1 /\ i < DocEnd(d) /\ ~SplitsPair(d, i)

\* A range must lie after position 0, be non-empty, end within the
\* document and not cut a surrogate pair in two.
ValidRange(d, s, e) ==
    /\ s >= 1 /\ s < e /\ e <= DocEnd(d)
    /\ ~SplitsPair(d, s) /\ ~SplitsPair(d, e)

\* replaceAllText: every occurrence of f, left to right, becomes r.
RECURSIVE ReplaceAllIn(_, _, _)
ReplaceAllIn(d, f, r) ==
    IF Len(d) < Len(f) THEN [doc |-> d, count |-> 0]
    ELSE IF SubSeq(d, 1, Len(f)) = f
         THEN LET rest == ReplaceAllIn(SubSeq(d, Len(f) + 1, Len(d)), f, r)
              IN  [doc |-> r \o rest.doc, count |-> rest.count + 1]
         ELSE LET rest == ReplaceAllIn(Tail(d), f, r)
              IN  [doc |-> <<Head(d)>> \o rest.doc, count |-> rest.count]

RequestAccepted(d, r) ==
    IF r.kind = "replaceAllText" THEN TRUE
    ELSE IF r.kind \in {"insertText", "insertTable", "insertPageBreak", "insertInlineImage"}
    THEN ValidInsertIndex(d, r.index)
    ELSE ValidRange(d, r.startIndex, r.endIndex)

\* What an accepted request leaves.  A page break and an inline image each
\* occupy one position, held as the unit "E"; a table is held as the one
\* unit "T"; a style or bullet request leaves the content as it is.
ApplyRequest(d, r) ==
    CASE r.kind = "insertText" -> InsertUnits(d, r.index, Utf16(r.text))
      [] r.kind = "deleteContentRange" -> DeleteUnits(d, r.startIndex, r.endIndex)
      [] r.kind = "insertTable" -> InsertUnits(d, r.index, <<"T">>)
      [] r.kind = "insertPageBreak" -> InsertUnits(d, r.index, <<"E">>)
      [] r.kind = "insertInlineImage" -> InsertUnits(d, r.index, <<"E">>)
      [] r.kind = "replaceAllText" -> ReplaceAllIn(d, Utf16(r.find), Utf16(r.replace)).doc
      [] OTHER -> d

\* The result of a batch: whether it was accepted, and the document after it.
RECURSIVE ApplyBatch(_, _)
ApplyBatch(d, reqs) ==
    IF reqs = <<>> THEN [ok |-> TRUE, doc |-> d]
    ELSE IF ~RequestAccepted(d, Head(reqs)) THEN [ok |-> FALSE, doc |-> d]
    ELSE ApplyBatch(ApplyRequest(d, Head(reqs)), Tail(reqs))

\* ------------------------------------------------------------------------
\* TableOperationManager and HeaderFooterManager (gdocs.managers)
\* ------------------------------------------------------------------------
\* The wording by which the service says that an insertion index is not
\* before the end of the document, and by which the table operation
\* recognises it.
BoundaryMessage == "must be less than the end index"

OtherMessage == "Invalid requests[0].insertTable"

\* A message is held as the list of its fragments; the numbers it quotes
\* are fragments of their own.
Message(prefix, fragments) == <<prefix>> \o fragments

\* fragment in message
MessageContains(message, fragment) == \E k \in DOMAIN message : message[k] = fragment

\* What the service answers to a table creation at an index that is not an
\* insertion point of d: the boundary wording, quoting the index and the
\* end of d, when index is at or beyond the end of d.
CreateRejection(d, index) ==
    IF index >= DocEnd(d)
    THEN << "Index ", ToString(index), " ", BoundaryMessage,
            " of the referenced segment, ", ToString(DocEnd(d)) >>
    ELSE << OtherMessage >>

\* The steps of one run of the manager after validation.
TableSteps(bold_headers) ==
    << "create_empty_table", "compute_cell_insertion_indices", "populate_cells" >>
    \o (IF bold_headers THEN << "format_headers" >> ELSE <<>>)

\* The steps of a run that submit a batch of their own.
SubmittingSteps == {"create_empty_table", "populate_cells", "format_headers"}

\* The steps a run has gone through when it stops at step failed ("none":
\* it runs to its end).
StepsUpTo(steps, failed) ==
    IF failed \in {steps[k] : k \in DOMAIN steps}
    THEN SubSeq(steps, 1, CHOOSE k \in DOMAIN steps : steps[k] = failed)
    ELSE steps

SubmissionsOf(steps) == Cardinality({k \in DOMAIN steps : steps[k] \in SubmittingSteps})

\* One run of the manager on document d: create the empty table at index,
\* compute the cell insertion indices, populate the cells, format the
\* header row.  The create is rejected when index is not an insertion point
\* of d.  fault names a later step at which the run fails (step "none": no
\* such failure) and tells whether the message of that failure carries the
\* boundary wording, as the answer of the service to a cell write or a
\* format request at an index beyond the end does.  The table is held in
\* the document as one structural unit "T"; what the cell writes do inside
\* it is modelled by populate_cells below.
create_and_populate_table(d, table_data, index, bold_headers, fault) ==
    LET create == create_insert_table_request(index, Len(table_data), Len(table_data[1]))
        steps == TableSteps(bold_headers)
        done == StepsUpTo(steps, fault.step)
    IN  IF ~ValidInsertIndex(d, index)
        THEN [success |-> FALSE,
              message |-> Message("Table creation failed: ", CreateRejection(d, index)),
              doc |-> d, requests |-> <<create>>, calls |-> 1,
              steps |-> << "create_empty_table" >>]
        ELSE IF fault.step \in {steps[k] : k \in DOMAIN steps}
        THEN [success |-> FALSE,
              message |-> Message("Table creation failed: ",
                                  << "error in ", fault.step >>
                                  \o (IF fault.boundary THEN << BoundaryMessage >> ELSE <<>>)),
              doc |-> InsertUnits(d, index, <<"T">>), requests |-> <<create>>,
              calls |-> SubmissionsOf(done), steps |-> done]
        ELSE [success |-> TRUE,
              message |-> Message("Successfully created table", <<>>),
              doc |-> InsertUnits(d, index, <<"T">>), requests |-> <<create>>,
              calls |-> SubmissionsOf(steps), steps |-> steps]

\* The table operation retries a run that failed with the boundary wording
\* in its message, once, at index - 1.
ShouldRetry(success, message) == ~success /\ MessageContains(message, BoundaryMessage)

RetryIndex_Same(index) == index

RetryIndex(index) == index - 1

\* The description states the index the operation was entered with.
TableDescription(success, message, index) ==
    IF success
    THEN [label |-> "SUCCESS", message |-> message, index |-> index]
    ELSE [label |-> "ERROR", message |-> message]

\* The run of the HeaderFooterManager: the section of the requested variant
\* is created when it is absent, by a call of its own, and content is then
\* written at index 1 of the section's own body by another.  The run
\* returns (False, message) when the service refuses one of the two.
HeaderFooterKey(section_type, header_footer_type) == <<section_type, header_footer_type>>

create_section_request(key) == [kind |-> "createSection", segment |-> key]

write_section_request(key, content) ==
    [kind |-> "insertText", index |-> 1, text |-> content, segment |-> key]

\* The calls a run makes on the set secs of existing sections.
update_header_footer_content(secs, section_type, content, header_footer_type) ==
    LET key == HeaderFooterKey(section_type, header_footer_type)
    IN  (IF key \in secs THEN <<>> ELSE << create_section_request(key) >>)
        \o << write_section_request(key, content) >>

\* The calls of a run at which the service may refuse.
HeaderFooterFaults == {"none", "createSection", "insertText"}

\* ------------------------------------------------------------------------
\* State
\* ------------------------------------------------------------------------
VARIABLES
    doc,        \* the document on the service
    prevDoc,    \* the document as the last call of the invocation in hand
                \* to the service found it or, while the invocation is
                \* suspended, as other invocations have left it
    call,       \* the invocation in hand: operation and parameters
    requests,   \* the requests list built by that invocation
    apiCalls,   \* batchUpdate calls issued by that invocation
    outcome,    \* how that invocation ended
    reported,   \* what its returned description states, if anything: a count,
                \* or for the table operation its label, message and index
    sections    \* the header and footer sections the document has

vars == <<doc, prevDoc, call, requests, apiCalls, outcome, reported, sections>>

DocumentIds == {"", "doc"}

Indexes == -1 .. MaxIndex

Bolds == Opt(BOOLEAN)

FontSizes == Opt({12})

ElementTypes == {"table", "list", "page_break", "heading"}

ListTypes == {"UNORDERED", "ORDERED"}

Counts == Opt({0, 2})

ImageSources == {"http://img", "https://img", "driveFileId"}

\* Cell texts of a table are opaque here.
TableDatas ==
    { <<>>,
      << <<"a">> >>,
      << <<"a", "b">>, <<"c", "d">> >>,
      << <<"a">>, <<"b", "c">> >> }

\* No step of a run of the table manager fails after the create.
NoFault == [step |-> "none", boundary |-> FALSE]

\* The later steps of a run of the table manager at which the run may fail,
\* each with a message of its own or, at a step that submits a batch, with
\* the boundary wording of the service.
Faults ==
    {NoFault}
    \cup { f \in [step : {"compute_cell_insertion_indices", "populate_cells",
                          "format_headers"},
                  boundary : BOOLEAN] :
               f.boundary => f.step \in SubmittingSteps }

SectionTypes == {"header", "margin"}

HeaderFooterTypes == {"DEFAULT", "ODD_PAGE"}

Contents == {<<>>, <<"x">>}

\* The reply list of a batch holding one replaceAllText request that
\* changed n occurrences, in each shape find_replace provides for.
ReplyShapes == {"counted", "uncounted", "no_result", "empty", "absent"}

ServiceReplies(shape, n) ==
    CASE shape = "counted" ->
            Some(<< [replaceAllText |-> Some([occurrencesChanged |-> Some(n)])] >>)
      [] shape = "uncounted" ->
            Some(<< [replaceAllText |-> Some([occurrencesChanged |-> None])] >>)
      [] shape = "no_result" -> Some(<< [replaceAllText |-> None] >>)
      [] shape = "empty" -> Some(<<>>)
      [] OTHER -> None

InsertOp(index, text) ==
    [type |-> "insert_text", index |-> index, text |-> text,
     start_index |-> None, end_index |-> None]

DeleteOp(start_index, end_index) ==
    [type |-> "delete_text", index |-> None, text |-> None,
     start_index |-> start_index, end_index |-> end_index]

OperationLists ==
    { <<>>,
      << InsertOp(Some(1), Some(<<"x">>)) >>,
      << DeleteOp(Some(1), Some(2)), InsertOp(Some(1), Some(<<"x">>)) >>,
      << InsertOp(Some(0), Some(<<"x">>)) >>,
      << InsertOp(Some(1), None) >>,
      << InsertOp(Some(1), Some(<<"x">>)), DeleteOp(Some(1), None) >>,
      << [type |-> "frobnicate", index |-> None, text |-> None,
          start_index |-> None, end_index |-> None] >> }

Init ==
    /\ doc = <<"S", "\n">>
    /\ prevDoc = <<"S", "\n">>
    /\ call = [operation |-> "none"]
    /\ requests = <<>>
    /\ apiCalls = 0
    /\ outcome = "none"
    /\ reported = None
    /\ sections = {}

\* The document as the service creates it: the section marker and one
\* newline.
NewDocument == <<"S", "\n">>

\* Each request of the batch submitted as a batch of its own, up to the
\* first the service rejects.
RECURSIVE ApplyOneByOne(_, _)
ApplyOneByOne(d, reqs) ==
    IF reqs = <<>> THEN [ok |-> TRUE, doc |-> d, calls |-> 0]
    ELSE IF ~RequestAccepted(d, Head(reqs)) THEN [ok |-> FALSE, doc |-> d, calls |-> 1]
    ELSE LET rest == ApplyOneByOne(ApplyRequest(d, Head(reqs)), Tail(reqs))
         IN  [ok |-> rest.ok, doc |-> rest.doc, calls |-> rest.calls + 1]

Submit_EachRequestAlone(r) ==
    LET applied == ApplyOneByOne(doc, r.requests)
    IN  /\ requests' = r.requests
        /\ prevDoc' = doc
        /\ UNCHANGED sections
        /\ IF r.submit
           THEN /\ apiCalls' = applied.calls
                /\ doc' = applied.doc
                /\ outcome' = IF applied.ok THEN "ok" ELSE "api_error"
           ELSE /\ apiCalls' = 0
                /\ doc' = doc
                /\ outcome' = r.outcome

\* The tail of every handler: submit the built batch once; the service
\* applies it in full or rejects it (HttpError, re-raised as an exception).
Submit(r) ==
    LET applied == ApplyBatch(doc, r.requests)
    IN  /\ requests' = r.requests
        /\ prevDoc' = doc
        /\ UNCHANGED sections
        /\ IF r.submit
           THEN /\ apiCalls' = 1
                /\ doc' = IF applied.ok THEN applied.doc ELSE doc
                /\ outcome' = IF applied.ok THEN "ok" ELSE "api_error"
           ELSE /\ apiCalls' = 0
                /\ doc' = doc
                /\ outcome' = r.outcome

\* BatchOperationManager.execute_batch_operations: the batch is submitted
\* once, and a batch the service rejects is reported as (False, message),
\* which the handler returns as an "Error:" string.
execute_batch_operations(r) ==
    LET applied == ApplyBatch(doc, r.requests)
    IN  /\ requests' = r.requests
        /\ prevDoc' = doc
        /\ UNCHANGED sections
        /\ IF r.submit
           THEN /\ apiCalls' = 1
                /\ doc' = IF applied.ok THEN applied.doc ELSE doc
                /\ outcome' = IF applied.ok THEN "ok" ELSE "error"
           ELSE /\ apiCalls' = 0
                /\ doc' = doc
                /\ outcome' = r.outcome

Idle == call.operation = "none"

\* The invocation in hand is suspended in an await, between two of its
\* calls to the service.
Suspended == outcome = "pending"

\* An invalid document id is tried with every start_index and formatting,
\* the two things read before the id is validated; bold and font_size are
\* each tried alone.
EditText ==
    /\ Idle
    /\ Len(doc) <= MaxDocLen
    /\ \E document_id \in DocumentIds, start_index \in Opt(Indexes),
          end_index \in Opt(Indexes), text \in Opt(Texts),
          bold \in Bolds, font_size \in FontSizes :
          /\ ~validate_document_id(document_id) => end_index = None /\ text = None
          /\ IsNone(bold) \/ IsNone(font_size)
          /\ call' = [operation |-> "edit_text", document_id |-> document_id,
                      start_index |-> start_index, end_index |-> end_index,
                      text |-> text, bold |-> bold, font_size |-> font_size]
          /\ Submit(edit_text(document_id, start_index, end_index, text, bold, font_size))
          /\ reported' = None

\* A list item of everyday length, at an index of everyday size.
ListScenario == [index |-> 20, text |-> <<"B", "u", "y", " ", "m", "i", "l", "k">>]

\* Parameters the selected element type does not read are left unset; the
\* list scenario is tried as a whole.
InsertTextElements ==
    /\ Idle
    /\ Len(doc) <= MaxDocLen
    /\ \E index \in Indexes \cup {ListScenario.index}, element_type \in Opt(ElementTypes),
          rows \in Counts, columns \in Counts, list_type \in Opt(ListTypes),
          text \in Opt(Texts \cup {ListScenario.text}) :
          /\ element_type # Some("table") => rows = None /\ columns = None
          /\ element_type # Some("list") => list_type = None /\ text = None
          /\ index = ListScenario.index <=> text = Some(ListScenario.text)
          /\ call' = [operation |-> "text_elements", index |-> index,
                      element_type |-> element_type, rows |-> rows, columns |-> columns,
                      list_type |-> list_type, text |-> text]
          /\ Submit(text_elements(RedirectIndex(index), element_type, rows, columns,
                                  list_type, text))
          /\ reported' = None

\* The image operation up to its first await.  With a Drive file id the
\* handler asks Drive for the metadata of the file and stays suspended
\* until AnswerDriveLookup; with a URL, or no source, nothing is looked up
\* and the batch is built and submitted at once.
InsertImage ==
    /\ Idle
    /\ Len(doc) <= MaxDocLen
    /\ \E index \in Indexes, image_source \in Opt(ImageSources) :
          /\ reported' = None
          /\ IF ~IsNone(image_source) /\ IsDriveFile(Val(image_source))
             THEN /\ call' = [operation |-> "image", index |-> index,
                              image_source |-> image_source, drive |-> "unanswered",
                              others |-> 0]
                  /\ requests' = <<>>
                  /\ apiCalls' = 0
                  /\ outcome' = "pending"
                  /\ prevDoc' = doc
                  /\ UNCHANGED <<doc, sections>>
             ELSE /\ call' = [operation |-> "image", index |-> index,
                              image_source |-> image_source, drive |-> "not asked",
                              others |-> 0]
                  /\ Submit(image(RedirectIndex(index), image_source, "not asked"))

\* The image operation from the answer of Drive on: the file is an image,
\* a file of another MIME type, or the lookup raised; for an image the
\* batch is built and submitted to the document as the service holds it by
\* then.
AnswerDriveLookup ==
    /\ call.operation = "image"
    /\ Suspended
    /\ \E drive \in {"image", "other", "exception"} :
          /\ call' = [call EXCEPT !.drive = drive]
          /\ Submit(image(RedirectIndex(call.index), call.image_source, drive))
          /\ reported' = None

\* The table operation up to its first await: validation, then the first
\* run of the manager at the entered index.  The requests recorded are the
\* table creations of the runs, in order.  When the run failed with the
\* boundary wording the invocation stays suspended until RetryTable.
\* Parameters that are never read are left at their defaults, and a fault
\* is drawn only for a run that gets to the step it names: a run whose
\* create the service accepts, with bold_headers for format_headers.
\* first is the result of the first run as the handler received it,
\* created the number of tables the runs have created.
InsertTable ==
    /\ Idle
    /\ Len(doc) <= MaxDocLen
    /\ \E document_id \in DocumentIds, index \in Indexes, table_data \in Opt(TableDatas) :
          LET idx == RedirectIndex(index)
              v == table(document_id, table_data, idx)
          IN  IF v.submit
              THEN \E bold_headers \in BOOLEAN, fault \in Faults :
                      /\ fault # NoFault => ValidInsertIndex(doc, idx)
                      /\ fault.step = "format_headers" => bold_headers
                      /\ LET first == create_and_populate_table(doc, Val(table_data), idx,
                                                                bold_headers, fault)
                             retry == ShouldRetry(first.success, first.message)
                         IN  /\ call' = [operation |-> "table", document_id |-> document_id,
                                         index |-> index, table_data |-> table_data,
                                         bold_headers |-> bold_headers,
                                         faults |-> <<fault, NoFault>>,
                                         first |-> Some([success |-> first.success,
                                                         message |-> first.message]),
                                         created |-> IF first.doc # doc THEN 1 ELSE 0,
                                         others |-> 0]
                             /\ requests' = first.requests
                             /\ apiCalls' = first.calls
                             /\ doc' = first.doc
                             /\ outcome' = IF retry THEN "pending"
                                           ELSE IF first.success THEN "ok" ELSE "error"
                             /\ reported' = IF retry THEN None
                                            ELSE Some(TableDescription(first.success,
                                                                       first.message, idx))
                             /\ prevDoc' = doc
                             /\ UNCHANGED sections
              ELSE /\ call' = [operation |-> "table", document_id |-> document_id,
                               index |-> index, table_data |-> table_data,
                               bold_headers |-> TRUE, faults |-> <<NoFault, NoFault>>,
                               first |-> None, created |-> 0,
                               others |-> 0]
                   /\ requests' = <<>>
                   /\ apiCalls' = 0
                   /\ doc' = doc
                   /\ outcome' = v.outcome
                   /\ reported' = None
                   /\ prevDoc' = doc
                   /\ UNCHANGED sections

\* The table operation from its second await on: the run of the manager at
\* index - 1, on the document as the service holds it by then, and the
\* description returned, which states the entered index.
RetryTable ==
    /\ call.operation = "table"
    /\ Suspended
    /\ \E fault \in Faults :
          LET idx == RedirectIndex(call.index)
              second == create_and_populate_table(doc, Val(call.table_data), RetryIndex(idx),
                                                  call.bold_headers, fault)
          IN  /\ fault # NoFault => ValidInsertIndex(doc, RetryIndex(idx))
              /\ fault.step = "format_headers" => call.bold_headers
              /\ call' = [call EXCEPT !.faults = <<call.faults[1], fault>>,
                                      !.created = @ + (IF second.doc # doc THEN 1 ELSE 0)]
              /\ requests' = requests \o second.requests
              /\ apiCalls' = apiCalls + second.calls
              /\ doc' = second.doc
              /\ outcome' = IF second.success THEN "ok" ELSE "error"
              /\ reported' = Some(TableDescription(second.success, second.message, idx))
              /\ prevDoc' = doc
              /\ UNCHANGED sections

\* find_replace: one batch with one replaceAllText request; the count
\* reported is read from the reply list, whose shape the service chooses.
FindReplace ==
    /\ Idle
    /\ Len(doc) <= MaxDocLen
    /\ \E find_text \in Opt(Texts), replace_text \in Opt(Texts), match_case \in BOOLEAN,
          shape \in ReplyShapes :
          LET r == find_replace(find_text, replace_text, match_case)
              n == ReplaceAllIn(doc, Utf16(Val(find_text)), Utf16(Val(replace_text))).count
          IN  /\ call' = [operation |-> "find_replace", find_text |-> find_text,
                          replace_text |-> replace_text, match_case |-> match_case,
                          shape |-> shape]
              /\ Submit(r)
              /\ reported' = IF r.submit THEN Some(Replacements(ServiceReplies(shape, n)))
                             ELSE None

\* headers_footers up to the first answer of the service to the manager:
\* validation, then the first call of the run.  When that call created the
\* section the invocation stays suspended until WriteHeaderFooter.  A call
\* the service refuses ends the run, and the handler returns "Error:".
HeadersFooters ==
    /\ Idle
    /\ Len(doc) <= MaxDocLen
    /\ \E document_id \in DocumentIds, section_type \in Opt(SectionTypes),
          content \in Opt(Contents), header_footer_type \in HeaderFooterTypes :
          LET v == headers_footers(document_id, section_type, content, header_footer_type)
          IN  /\ prevDoc' = doc
              /\ UNCHANGED doc
              /\ reported' = None
              /\ IF v.submit
                 THEN \E fault \in HeaderFooterFaults :
                        LET calls == update_header_footer_content(
                                         sections, Val(section_type), Val(content),
                                         header_footer_type)
                            key == HeaderFooterKey(Val(section_type), header_footer_type)
                        IN  /\ fault # "none" => \E k \in DOMAIN calls : calls[k].kind = fault
                            /\ call' = [operation |-> "headers_footers",
                                        document_id |-> document_id,
                                        section_type |-> section_type, content |-> content,
                                        header_footer_type |-> header_footer_type,
                                        calls |-> calls, fault |-> fault, others |-> 0]
                            /\ requests' = << calls[1] >>
                            /\ apiCalls' = 1
                            /\ sections' = IF calls[1].kind = "createSection" /\ fault # calls[1].kind
                                           THEN sections \cup {key} ELSE sections
                            /\ outcome' = IF fault = calls[1].kind THEN "error"
                                          ELSE IF Len(calls) > 1 THEN "pending" ELSE "ok"
                 ELSE /\ call' = [operation |-> "headers_footers", document_id |-> document_id,
                                  section_type |-> section_type, content |-> content,
                                  header_footer_type |-> header_footer_type,
                                  calls |-> <<>>, fault |-> "none", others |-> 0]
                      /\ requests' = <<>>
                      /\ apiCalls' = 0
                      /\ sections' = sections
                      /\ outcome' = v.outcome

\* The second call of the run of the HeaderFooterManager: the content is
\* written into the section just created.
WriteHeaderFooter ==
    /\ call.operation = "headers_footers"
    /\ Suspended
    /\ requests' = Append(requests, call.calls[2])
    /\ apiCalls' = apiCalls + 1
    /\ outcome' = IF call.fault = call.calls[2].kind THEN "error" ELSE "ok"
    /\ UNCHANGED <<doc, prevDoc, call, reported, sections>>

BatchUpdate ==
    /\ Idle
    /\ Len(doc) <= MaxDocLen
    /\ \E document_id \in DocumentIds, operations \in Opt(OperationLists) :
          /\ call' = [operation |-> "batch_update", document_id |-> document_id,
                      operations |-> operations]
          /\ execute_batch_operations(batch_update(document_id, operations))
          /\ reported' = None

\* create_doc up to its second await: the service creates a new document,
\* which becomes the document in hand.  With content the invocation stays
\* suspended until InsertContent.
CreateDoc ==
    /\ Idle
    /\ \E content \in Texts :
          LET r == create_doc(content)
          IN  /\ call' = [operation |-> "create_doc", content |-> content]
              /\ requests' = <<>>
              /\ apiCalls' = 0
              /\ doc' = NewDocument
              /\ prevDoc' = NewDocument
              /\ sections' = {}
              /\ reported' = None
              /\ outcome' = IF r.submit THEN "pending" ELSE r.outcome

\* create_doc from its second await on: the content is inserted into the
\* new document by one batch.
InsertContent ==
    /\ call.operation = "create_doc"
    /\ Suspended
    /\ LET r == create_doc(call.content)
           applied == ApplyBatch(doc, r.requests)
       IN  /\ requests' = r.requests
           /\ apiCalls' = 1
           /\ doc' = IF applied.ok THEN applied.doc ELSE doc
           /\ outcome' = IF applied.ok THEN "ok" ELSE "api_error"
    /\ UNCHANGED <<prevDoc, call, reported, sections>>

\* The batches another invocation of a single-batch operation on the
\* document may submit: those edit_text, find_replace, the element
\* insertions, the image insertion and batch_update build for texts of at
\* most one character.
OtherTexts == { t \in Texts : Len(t) <= 1 }

OtherBatches ==
    LET built ==
            { edit_text("doc", start_index, end_index, text, None, None) :
                  start_index \in Opt(Indexes), end_index \in Opt(Indexes),
                  text \in Opt(OtherTexts) }
            \cup { find_replace(find_text, replace_text, TRUE) :
                       find_text \in Opt(OtherTexts), replace_text \in Opt(OtherTexts) }
            \cup { text_elements(RedirectIndex(index), element_type, rows, columns,
                                 list_type, text) :
                       index \in Indexes, element_type \in Opt(ElementTypes),
                       rows \in Counts, columns \in Counts, list_type \in Opt(ListTypes),
                       text \in Opt(OtherTexts) }
            \cup { image(RedirectIndex(index), image_source, "image") :
                       index \in Indexes, image_source \in Opt(ImageSources) }
            \cup { batch_update("doc", operations) : operations \in Opt(OperationLists) }
    IN  { r.requests : r \in { b \in built : b.submit } }

\* The sections another invocation of headers_footers may create.
OtherSections ==
    { HeaderFooterKey(key[1], key[2]) :
          key \in { k \in SectionTypes \X HeaderFooterTypes :
                       validate_header_footer_params(k[1], k[2]) } }

\* Other invocations on the same event loop run to their end while the one
\* in hand is suspended, up to MaxOthers of them: the batch of such an
\* invocation reaches the service between two calls of the invocation in
\* hand, or its manager creates a section.  The document create_doc has
\* created is not known to any other caller before create_doc returns its id.
OtherInvocation ==
    /\ Suspended
    /\ call.operation # "create_doc"
    /\ call.others < MaxOthers
    /\ \/ /\ Len(doc) <= MaxDocLen
          /\ \E batch \in OtherBatches :
                LET applied == ApplyBatch(doc, batch)
                IN  /\ applied.ok
                    /\ doc' = applied.doc
          /\ UNCHANGED sections
       \/ /\ \E key \in OtherSections : sections' = sections \cup {key}
          /\ UNCHANGED doc
    /\ prevDoc' = doc'
    /\ call' = [call EXCEPT !.others = @ + 1]
    /\ UNCHANGED <<requests, apiCalls, outcome, reported>>

\* An operation name none of the dispatches knows: ValueError.
InvalidOperation ==
    /\ Idle
    /\ \E tool \in {"modify_doc_content", "insert_doc_elements", "manage_doc_operations"} :
          /\ call' = [operation |-> "invalid", tool |-> tool]
          /\ Submit(Rejected("raised"))
          /\ reported' = None

\* The result has been handed to the caller; the next invocation starts
\* from the document as the service now holds it.
Return ==
    /\ ~Idle
    /\ ~Suspended
    /\ call' = [operation |-> "none"]
    /\ requests' = <<>>
    /\ apiCalls' = 0
    /\ outcome' = "none"
    /\ reported' = None
    /\ prevDoc' = doc
    /\ UNCHANGED <<doc, sections>>

Next ==
    \/ EditText
    \/ InsertTextElements
    \/ InsertImage
    \/ AnswerDriveLookup
    \/ InsertTable
    \/ RetryTable
    \/ FindReplace
    \/ HeadersFooters
    \/ WriteHeaderFooter
    \/ BatchUpdate
    \/ CreateDoc
    \/ InsertContent
    \/ OtherInvocation
    \/ InvalidOperation
    \/ Return

Spec == Init /\ [][Next]_vars

\* ------------------------------------------------------------------------
\* Vocabulary of the properties
\* ------------------------------------------------------------------------
\* The invocation in hand is an edit_text call that gives start_index and
\* a valid document id.
EditCall ==
    /\ call.operation = "edit_text"
    /\ ~IsNone(call.start_index)
    /\ validate_document_id(call.document_id)

\* ... and gives a text and a non-degenerate range: the replace branch.
ReplaceCall ==
    /\ EditCall
    /\ ~IsNone(call.text)
    /\ ~IsNone(call.end_index)
    /\ Val(call.end_index) > Val(call.start_index)

FormattingCall ==
    /\ call.operation = "edit_text"
    /\ (~IsNone(call.bold) \/ (~IsNone(call.font_size) /\ Val(call.font_size) # 0))

RequestsOfKind(kind) == {k \in 1 .. Len(requests) : requests[k].kind = kind}

\* The content a direct replace of positions [s, e) by text leaves.
DirectReplace(d, s, e, text) == SubSeq(d, 1, s) \o Utf16(text) \o SubSeq(d, e + 1, Len(d))

\* ------------------------------------------------------------------------
\* Properties
\* ------------------------------------------------------------------------
\* C1: for every edit_text replace with start_index == 0, every
\* deleteContentRange request of the built batch has startIndex >= 1, so no
\* delete range contains position 0.
C1_Index0ReplaceSparesPosition0 ==
    (ReplaceCall /\ Val(call.start_index) = 0) =>
        /\ RequestsOfKind("deleteContentRange") # {}
        /\ \A k \in RequestsOfKind("deleteContentRange") :
              requests[k].startIndex >= 1 /\ requests[k].endIndex >= 1

\* An index-0 replace by the empty text: the delete starts right at 1.
C1_Witness ==
    /\ ReplaceCall /\ Val(call.start_index) = 0
    /\ \E k \in RequestsOfKind("deleteContentRange") : requests[k].startIndex = 1

\* C2: for an index-0 replace of [0, e), 1 < e <= document end (e on a
\* character boundary of the document), the built batch
\* [insertText, deleteContentRange], applied in list order, leaves exactly
\* the content of a direct replace of the positions [1, e) by text.
C2_Index0ReplaceEqualsDirectReplace ==
    (/\ ReplaceCall /\ Val(call.start_index) = 0 /\ ~FormattingCall
     /\ Val(call.end_index) > 1 /\ ValidRange(prevDoc, 1, Val(call.end_index))) =>
        doc = DirectReplace(prevDoc, 1, Val(call.end_index), Val(call.text))

\* C3: an edit_text replace with start_index = 0, end_index = e > 0 and a
\* text of len L builds exactly two text requests, insertText(1, text) then
\* deleteContentRange(1 + L, e + L); for end_index 10 and "hi" the batch is
\* [insert(1, "hi"), delete(3, 12)].
C3_Index0ReplaceBatch ==
    /\ (ReplaceCall /\ Val(call.start_index) = 0) =>
          LET L == Len(Val(call.text))
              e == Val(call.end_index)
          IN  /\ Len(requests) >= 2
              /\ requests[1] = [kind |-> "insertText", index |-> 1, text |-> Val(call.text)]
              /\ requests[2] = [kind |-> "deleteContentRange",
                                startIndex |-> 1 + L, endIndex |-> e + L]
              /\ RequestsOfKind("insertText") = {1}
              /\ RequestsOfKind("deleteContentRange") = {2}
    /\ BuildEditText(0, Some(10), Some(<<"h", "i">>), None, None)
          = << [kind |-> "insertText", index |-> 1, text |-> <<"h", "i">>],
               [kind |-> "deleteContentRange", startIndex |-> 3, endIndex |-> 12] >>

C3_Witness ==
    /\ ReplaceCall /\ Val(call.start_index) = 0
    /\ Len(Val(call.text)) = 2
    /\ Len(requests) = 2
    /\ requests[2].startIndex = 3

\* C4: an edit_text replace with start_index > 0 builds
\* deleteContentRange(start_index, end_index) immediately followed by
\* insertText(start_index, text), neither index adjusted; whenever the range
\* is a deletable range of the document that leaves a position to insert at,
\* the service accepts the two, and an accepted batch leaves the original
\* content with the positions [start_index, end_index) replaced by text.
C4_OrdinaryReplaceDeletesThenInserts ==
    (ReplaceCall /\ Val(call.start_index) > 0) =>
        LET s == Val(call.start_index)
            e == Val(call.end_index)
        IN  /\ Len(requests) >= 2
            /\ requests[1] = [kind |-> "deleteContentRange", startIndex |-> s, endIndex |-> e]
            /\ requests[2] = [kind |-> "insertText", index |-> s, text |-> Val(call.text)]
            /\ RequestsOfKind("deleteContentRange") = {1}
            /\ RequestsOfKind("insertText") = {2}
            /\ (~FormattingCall /\ ValidRange(prevDoc, s, e) /\ e < DocEnd(prevDoc))
                  => outcome = "ok"
            /\ outcome = "ok" => doc = DirectReplace(prevDoc, s, e, Val(call.text))

\* An accepted ordinary replace that changed the document.
C4_Witness ==
    /\ ReplaceCall /\ Val(call.start_index) > 0
    /\ outcome = "ok"
    /\ Len(Val(call.text)) = 2
    /\ doc # prevDoc

\* The index an insert-only intent has to address for the caller's index.
InsertionIndexFor(index) == IF index = 0 THEN 1 ELSE index

\* The invocation in hand is an edit_text call that only inserts: a text,
\* no non-degenerate range (formatting needs one, so there is none).
InsertOnlyEditCall ==
    /\ EditCall
    /\ ~IsNone(call.text)
    /\ (IsNone(call.end_index) \/ Val(call.end_index) <= Val(call.start_index))
    /\ ~FormattingCall

\* The invocation in hand is a text_elements call whose parameters are
\* complete for its element type.
ElementCall(element_type) ==
    /\ call.operation = "text_elements"
    /\ call.element_type = Some(element_type)
    /\ element_type = "table" =>
          /\ ~IsNone(call.rows) /\ Val(call.rows) # 0
          /\ ~IsNone(call.columns) /\ Val(call.columns) # 0
    /\ element_type = "list" => ~IsNone(call.list_type)

ImageCall ==
    /\ call.operation = "image"
    /\ ~IsNone(call.image_source)
    /\ (Val(call.image_source) \in {"http://img", "https://img"} \/ call.drive = "image")

\* C5: an insert-only intent at caller index 0 (edit_text insertion;
\* insert_doc_elements table, list, page_break, image) is built at index 1,
\* never at index 0, and any other caller index is used unchanged; the
\* table operation makes its first creation attempt at that index too.
C5_InsertOnlyRedirectsIndex0 ==
    /\ InsertOnlyEditCall =>
          requests = << [kind |-> "insertText",
                         index |-> InsertionIndexFor(Val(call.start_index)),
                         text |-> Val(call.text)] >>
    /\ ElementCall("table") =>
          requests = << [kind |-> "insertTable", index |-> InsertionIndexFor(call.index),
                         rows |-> Val(call.rows), columns |-> Val(call.columns)] >>
    /\ ElementCall("page_break") =>
          requests = << [kind |-> "insertPageBreak",
                         index |-> InsertionIndexFor(call.index)] >>
    /\ ElementCall("list") =>
          /\ Len(requests) = 2
          /\ requests[1].kind = "insertText"
          /\ requests[1].index = InsertionIndexFor(call.index)
          /\ requests[2].kind = "createParagraphBullets"
          /\ requests[2].startIndex = InsertionIndexFor(call.index)
    /\ (/\ call.operation = "table"
        /\ validate_document_id(call.document_id)
        /\ ~IsNone(call.table_data) /\ call.table_data # Some(<<>>)
        /\ validate_table_data(Val(call.table_data))
        /\ call.index >= 0) =>
          /\ Len(requests) >= 1
          /\ requests[1].kind = "insertTable"
          /\ requests[1].index = InsertionIndexFor(call.index)
    /\ ImageCall =>
          /\ Len(requests) = 1
          /\ requests[1].kind = "insertInlineImage"
          /\ requests[1].index = InsertionIndexFor(call.index)

\* A page break asked for at index 0 and inserted at position 1.
C5_Witness ==
    /\ ElementCall("page_break")
    /\ call.index = 0
    /\ outcome = "ok"
    /\ doc[2] = "E"

\* C6: when edit_text inserts or replaces text and formats in the same
\* call, the range of the updateTextStyle request is exactly the range the
\* new text occupies once the text requests of the batch are applied (for
\* a text that is not empty: the empty text occupies no range).
C6_FormatRangeIsNewTextRange ==
    (EditCall /\ ~IsNone(call.text) /\ call.text # Some(<<>>)
       /\ FormattingCall /\ ~IsNone(call.end_index)
       /\ Val(call.start_index) >= 0 /\ Val(call.end_index) > Val(call.start_index)) =>
        \A k \in RequestsOfKind("updateTextStyle") :
            \A i \in RequestsOfKind("insertText") :
                /\ requests[k].startIndex = requests[i].index
                /\ requests[k].endIndex = requests[i].index + Len(Utf16(requests[i].text))

\* C7: every updateTextStyle request built by edit_text has
\* 1 <= startIndex < endIndex; a computed start of 0 becomes 1 and a
\* computed range with end <= start becomes [start, start + 1).
C7_FormatRangeWellFormed ==
    call.operation = "edit_text" =>
        /\ \A k \in RequestsOfKind("updateTextStyle") :
              1 <= requests[k].startIndex /\ requests[k].startIndex < requests[k].endIndex
        /\ (EditCall /\ FormattingCall /\ ~IsNone(call.end_index)
              /\ Val(call.start_index) >= 0 /\ Val(call.end_index) > Val(call.start_index)) =>
              LET s == Val(call.start_index)
                  e == IF IsNone(call.text) THEN Val(call.end_index)
                       ELSE s + Len(Val(call.text))
                  fs == IF s = 0 THEN 1 ELSE s
                  k == Len(requests)
              IN  /\ requests[k].kind = "updateTextStyle"
                  /\ requests[k].startIndex = fs
                  /\ requests[k].endIndex = IF e <= fs THEN fs + 1 ELSE e

\* A replace by the empty text with formatting: the computed range [s, s)
\* is widened to [s, s + 1).
C7_Witness ==
    /\ EditCall /\ FormattingCall
    /\ call.text = Some(<<>>)
    /\ \E k \in RequestsOfKind("updateTextStyle") :
          /\ requests[k].startIndex = Val(call.start_index)
          /\ requests[k].endIndex = Val(call.start_index) + 1

\* C8: a list insertion of text t at (redirected) index i builds
\* insertText(i, t + newline) followed by createParagraphBullets over
\* [i, i + len(t) + 1), and that range includes the trailing newline of the
\* inserted text.
C8_ListRangeCoversNewline ==
    ElementCall("list") =>
        LET t == IF IsNone(call.text) \/ Val(call.text) = <<>>
                 THEN <<"L", "i", "s", "t", " ", "i", "t", "e", "m">>
                 ELSE Val(call.text)
            i == InsertionIndexFor(call.index)
            newline == i + Len(Utf16(t))
        IN  /\ requests = << [kind |-> "insertText", index |-> i, text |-> t \o <<"\n">>],
                             [kind |-> "createParagraphBullets", startIndex |-> i,
                              endIndex |-> i + Len(t) + 1,
                              list_type |-> Val(call.list_type)] >>
            /\ requests[2].startIndex <= newline /\ newline < requests[2].endIndex

\* The invocation in hand lacks a parameter its operation needs, or its
\* parameters contradict each other.
MissingOrContradictory ==
    \/ /\ call.operation = "edit_text"
       /\ \/ IsNone(call.start_index)
          \/ IsNone(call.text) /\ ~FormattingCall
          \/ FormattingCall /\ IsNone(call.end_index)
    \/ /\ call.operation = "find_replace"
       /\ \/ IsNone(call.find_text) \/ call.find_text = Some(<<>>)
          \/ IsNone(call.replace_text)
    \/ /\ call.operation = "headers_footers"
       /\ \/ IsNone(call.section_type)
          \/ IsNone(call.content) \/ call.content = Some(<<>>)
    \/ /\ call.operation = "text_elements"
       /\ \/ IsNone(call.element_type)
          \/ call.element_type = Some("list") /\ IsNone(call.list_type)
          \/ /\ call.element_type = Some("table")
             /\ \/ IsNone(call.rows) \/ call.rows = Some(0)
                \/ IsNone(call.columns) \/ call.columns = Some(0)
    \/ /\ call.operation = "image"
       /\ IsNone(call.image_source)
    \/ /\ call.operation = "table"
       /\ (IsNone(call.table_data) \/ call.table_data = Some(<<>>))
    \/ /\ call.operation = "batch_update"
       /\ (IsNone(call.operations) \/ call.operations = Some(<<>>))
    \/ call.operation = "invalid"

\* C9: a call rejected because a parameter is missing or contradictory
\* (or the operation unknown) has built no request and issued no call to the
\* document service; the document is as it was.
C9_RejectionBuildsNothing ==
    MissingOrContradictory =>
        /\ outcome \in {"error", "raised"}
        /\ requests = <<>>
        /\ apiCalls = 0
        /\ doc = prevDoc

\* Formatting and a text to insert, but no end_index: rejected although the
\* text alone would have been an insertion.
C9_Witness ==
    /\ call.operation = "edit_text"
    /\ validate_document_id(call.document_id)
    /\ ~IsNone(call.start_index) /\ ~IsNone(call.text) /\ Val(call.text) # <<>>
    /\ FormattingCall /\ IsNone(call.end_index)
    /\ outcome = "error"
    /\ apiCalls = 0

\* Both indices are given and start_index < end_index does not hold.
DegenerateRangeCall ==
    /\ call.operation = "edit_text"
    /\ ~IsNone(call.start_index) /\ ~IsNone(call.end_index)
    /\ ~(Val(call.start_index) < Val(call.end_index))

\* C10 as stated: every edit_text call with both indices given and
\* start_index < end_index not holding is rejected with no request built or
\* submitted, with or without formatting parameters.
C10_DegenerateRangeAlwaysRejected ==
    DegenerateRangeCall =>
        /\ requests = <<>>
        /\ apiCalls = 0

\* C10 as amended: with formatting parameters such a call is rejected with
\* no request built or submitted; without them a call that gives a text (and
\* a valid document id) is not rejected: it builds and submits the insertion
\* of the text at start_index (at 1 for 0).
C10_DegenerateRangeRejectedWithFormatting ==
    DegenerateRangeCall =>
        IF FormattingCall \/ IsNone(call.text) \/ ~validate_document_id(call.document_id)
        THEN /\ outcome = "error"
             /\ requests = <<>>
             /\ apiCalls = 0
             /\ doc = prevDoc
        ELSE /\ requests = << [kind |-> "insertText",
                               index |-> InsertionIndexFor(Val(call.start_index)),
                               text |-> Val(call.text)] >>
             /\ apiCalls = 1

\* Text and formatting over a degenerate range: rejected.
C10_Witness ==
    /\ DegenerateRangeCall
    /\ FormattingCall
    /\ ~IsNone(call.text)
    /\ validate_document_id(call.document_id)
    /\ outcome = "error"
    /\ requests = <<>>

\* ------------------------------------------------------------------------
\* Claims C11 - C14: the table operation and its retry
\* ------------------------------------------------------------------------
\* The table operation passed validation and ran the manager.
TableRun == call.operation = "table" /\ apiCalls > 0

\* The index the table operation is entered with, after the redirect.
EnteredIndex == InsertionIndexFor(call.index)

CountOf(unit, d) == Cardinality({k \in DOMAIN d : d[k] = unit})

\* A document of end index n: the section marker, text, the final newline.
DocOfEnd(n) == [k \in 1 .. n |-> IF k = 1 THEN "S" ELSE IF k = n THEN "\n" ELSE "x"]

\* On a document of end index 50 the run at 50 fails with the boundary
\* wording and the run at the retry index, 49, creates the table, whatever
\* the table and the header formatting.
RetryAt49 ==
    \A table_data \in { t \in TableDatas : validate_table_data(t) }, bold_headers \in BOOLEAN :
        LET first == create_and_populate_table(DocOfEnd(50), table_data, 50,
                                               bold_headers, NoFault)
            second == create_and_populate_table(first.doc, table_data, RetryIndex(50),
                                                bold_headers, NoFault)
        IN  /\ first.requests[1].index = 50
            /\ ShouldRetry(first.success, first.message)
            /\ second.requests[1].index = 49 /\ second.success

\* C11: the table operation attempts the table creation at most twice per
\* call; the first attempt is at the entered index; a second attempt
\* happens only after the first failed with the boundary wording in its
\* message, it is at index - 1, and nothing is attempted after it, whether
\* it fails or not.  On a document of end index 50 a request at 50 is
\* retried at 49.
C11_TableRetriedOnceAtIndexMinusOne ==
    /\ TableRun =>
          /\ Len(requests) \in {1, 2}
          /\ \A k \in DOMAIN requests : requests[k].kind = "insertTable"
          /\ requests[1].index = EnteredIndex
          /\ Len(requests) = 2 =>
                /\ ~Val(call.first).success
                /\ MessageContains(Val(call.first).message, BoundaryMessage)
                /\ requests[2].index = EnteredIndex - 1
                /\ RetryAt49

\* A retry that failed too, and was the last attempt.
C11_Witness ==
    /\ TableRun
    /\ Len(requests) = 2
    /\ requests[2].index = EnteredIndex - 1
    /\ outcome = "error"

\* C12: when the first run failed with the boundary error and the retry at
\* index - 1 does not succeed, the error returned is the boundary error
\* message of the first run, unchanged.
C12_FailedRetryReturnsFirstMessage ==
    (TableRun /\ Len(requests) = 2 /\ outcome = "error") =>
        Val(reported).message = Val(call.first).message

\* C13: a second table creation is issued only when the create step of the
\* first run was rejected for the boundary reason; a run that created the
\* empty table and failed at a later step is not followed by another, and
\* the runs of one table operation create at most one table.
C13_LaterFailureNeverRetried ==
    TableRun =>
        /\ Len(requests) = 2 =>
              /\ call.faults[1] = NoFault
              /\ MessageContains(Val(call.first).message, BoundaryMessage)
        /\ call.faults[1] # NoFault => Len(requests) = 1
        /\ call.created <= 1

\* C14: on success the index stated in the returned description is the
\* index at which the table was created, also when the retry created it;
\* on failure the result is a labelled error or a raised exception.
C14_StatedIndexIsCreationIndex ==
    call.operation = "table" /\ ~Suspended =>
        /\ outcome = "ok" =>
              /\ Val(reported).label = "SUCCESS"
              /\ doc = InsertUnits(prevDoc, Val(reported).index, <<"T">>)
        /\ outcome # "ok" =>
              /\ outcome \in {"error", "raised"}
              /\ doc = prevDoc \/ call.faults # <<NoFault, NoFault>>
              /\ outcome = "error" /\ apiCalls > 0 => Val(reported).label = "ERROR"

\* ------------------------------------------------------------------------
\* Claim C15: find_replace
\* ------------------------------------------------------------------------
\* A find_replace call with both texts given.
FindReplaceCall ==
    /\ call.operation = "find_replace"
    /\ ~IsNone(call.find_text) /\ call.find_text # Some(<<>>)
    /\ ~IsNone(call.replace_text)

\* The number of occurrences the service changed in the call in hand.
OccurrencesChanged ==
    ReplaceAllIn(prevDoc, Utf16(Val(call.find_text)), Utf16(Val(call.replace_text))).count

\* C15: find_replace submits one batch holding one replaceAllText request
\* and reports the occurrencesChanged count of the first reply; it reports
\* 0 when the reply list is absent or empty or its first reply carries no
\* replaceAllText result (or no count in it).
C15_FindReplaceReportsFirstReplyCount ==
    FindReplaceCall =>
        /\ apiCalls = 1
        /\ requests = << [kind |-> "replaceAllText", find |-> Val(call.find_text),
                          replace |-> Val(call.replace_text),
                          match_case |-> call.match_case] >>
        /\ reported = Some(IF call.shape = "counted" THEN OccurrencesChanged ELSE 0)

\* Two occurrences were replaced and two are reported.
C15_Witness ==
    /\ FindReplaceCall
    /\ call.shape = "counted"
    /\ reported = Some(2)
    /\ doc # prevDoc

\* ------------------------------------------------------------------------
\* Claim C16: one batch per operation
\* ------------------------------------------------------------------------
\* The requests applied in order, whatever the service would say to them.
RECURSIVE ApplyAll(_, _)
ApplyAll(d, reqs) ==
    IF reqs = <<>> THEN d ELSE ApplyAll(ApplyRequest(d, Head(reqs)), Tail(reqs))

SingleBatchOperations ==
    {"edit_text", "find_replace", "text_elements", "image", "batch_update", "create_doc"}

ManagerOperations == {"table", "headers_footers"}

\* The operation in hand submitted at most one batch, and the caller sees
\* either the document as it was or the document with every request the
\* operation built applied.
OneBatchAllOrNothing ==
    /\ apiCalls <= 1
    /\ outcome # "ok" => doc = prevDoc
    /\ outcome = "ok" => doc = ApplyAll(prevDoc, requests)

\* C16: every mutating public document operation performs its whole
\* mutation as one batch submitted once, and the caller never observes a
\* document to which only a part of the operation's effects is applied.
C16_EveryOperationIsOneBatch ==
    call.operation \in SingleBatchOperations \cup ManagerOperations => OneBatchAllOrNothing

\* C16 as amended: this holds of every mutating operation other than the
\* table operation and headers_footers, which run managers that submit
\* several batches.
C16_SingleBatchOperationsAreOneBatch ==
    call.operation \in SingleBatchOperations => OneBatchAllOrNothing

\* A replace with formatting: three requests in one batch, all applied.
C16_Witness ==
    /\ call.operation = "edit_text"
    /\ Len(requests) = 3
    /\ apiCalls = 1
    /\ outcome = "ok"
    /\ doc # prevDoc

\* ------------------------------------------------------------------------
\* get_doc_content: text extraction over the document tree
\* ------------------------------------------------------------------------
\* A string is held as the list of its pieces; concatenation is \o.  An
\* element of a body is tagged paragraph, table or sectionBreak; a
\* paragraph holds its elements, a table its rows, a row its cells, a cell
\* its content, which is a body again.
Whitespace == {" ", "\n", "    "}

\* not s.strip()
IsBlank(s) == \A k \in DOMAIN s : s[k] \in Whitespace

\* TAB_HEADER_FORMAT.format(tab_name=tab_name)
TAB_HEADER_FORMAT(tab_name) == << "\n--- TAB: " >> \o tab_name \o << " ---\n" >>

\* The depth beyond which extraction returns the empty string.
DepthExceeded_OffByOne(depth) == depth >= 5

DepthExceeded(depth) == depth > 5

\* current_line_text of a paragraph: the content of every text run, in
\* element order; an element without a text run, or a text run without
\* content, adds nothing.
RECURSIVE ParagraphText_Prepending(_)
ParagraphText_Prepending(para_elements) ==
    IF para_elements = <<>> THEN <<>>
    ELSE LET text_run == Head(para_elements).textRun
         IN  ParagraphText_Prepending(Tail(para_elements))
             \o (IF ~IsNone(text_run) /\ ~IsNone(Val(text_run).content)
                 THEN Val(Val(text_run).content) ELSE <<>>)

RECURSIVE ParagraphText(_)
ParagraphText(para_elements) ==
    IF para_elements = <<>> THEN <<>>
    ELSE LET text_run == Head(para_elements).textRun
         IN  (IF ~IsNone(text_run) /\ ~IsNone(Val(text_run).content)
              THEN Val(Val(text_run).content) ELSE <<>>)
             \o ParagraphText(Tail(para_elements))

RECURSIVE extract_text_from_elements(_, _, _)
RECURSIVE ElementsText(_, _)
RECURSIVE RowsText(_, _)
RECURSIVE CellsText(_, _)

\* The loop over the cells of a row.
CellsText(row_cells, depth) ==
    IF row_cells = <<>> THEN <<>>
    ELSE LET cell_text == extract_text_from_elements(Head(row_cells), None, depth + 1)
         IN  (IF ~IsBlank(cell_text) THEN cell_text ELSE <<>>)
             \o CellsText(Tail(row_cells), depth)

\* The loop over the rows of a table.
RowsText(table_rows, depth) ==
    IF table_rows = <<>> THEN <<>>
    ELSE CellsText(Head(table_rows), depth) \o RowsText(Tail(table_rows), depth)

\* The loop over the elements of a body.
ElementsText(elements, depth) ==
    IF elements = <<>> THEN <<>>
    ELSE LET element == Head(elements)
             line == IF element.tag = "paragraph"
                     THEN LET current_line_text == ParagraphText(element.elements)
                          IN  IF ~IsBlank(current_line_text) THEN current_line_text ELSE <<>>
                     ELSE IF element.tag = "table"
                     THEN RowsText(element.tableRows, depth)
                     ELSE <<>>
         IN  line \o ElementsText(Tail(elements), depth)

\* tab_name is None or the title of the tab the elements are the body of.
extract_text_from_elements(elements, tab_name, depth) ==
    IF DepthExceeded(depth) THEN <<>>
    ELSE (IF ~IsNone(tab_name) /\ Val(tab_name) # <<>>
          THEN TAB_HEADER_FORMAT(Val(tab_name)) ELSE <<>>)
         \o ElementsText(elements, depth)

\* "    " * level
Indentation(level) == [k \in 1 .. level |-> "    "]

\* The level at which the child tabs of a tab of the given level are
\* processed.
ChildLevel_Same(level) == level

ChildLevel(level) == level + 1

RECURSIVE process_tab_hierarchy(_, _)
RECURSIVE ChildTabsText(_, _)

\* The loop over the child tabs of a tab of the given level.
ChildTabsText(child_tabs, level) ==
    IF child_tabs = <<>> THEN <<>>
    ELSE process_tab_hierarchy(Head(child_tabs), ChildLevel(level))
         \o ChildTabsText(Tail(child_tabs), level)

\* A tab holds documentTab (None when absent), whose title is None when
\* absent, and its childTabs.
process_tab_hierarchy(tab, level) ==
    LET own == IF ~IsNone(tab.documentTab)
               THEN LET documentTab == Val(tab.documentTab)
                        title == IF IsNone(documentTab.title) THEN << "Untitled Tab" >>
                                 ELSE Val(documentTab.title)
                        tab_title == IF level > 0 THEN Indentation(level) \o title
                                     ELSE title
                    IN  extract_text_from_elements(documentTab.body, Some(tab_title), 0)
               ELSE <<>>
    IN  own \o ChildTabsText(tab.childTabs, level)

RECURSIVE TabsText(_)
\* The loop over the top-level tabs.
TabsText(tabs) ==
    IF tabs = <<>> THEN <<>>
    ELSE LET tab_content == process_tab_hierarchy(Head(tabs), 0)
         IN  (IF ~IsBlank(tab_content) THEN tab_content ELSE <<>>) \o TabsText(Tail(tabs))

\* body_text of a native document.
get_doc_content(doc_data) ==
    LET main_content == extract_text_from_elements(doc_data.body, None, 0)
    IN  (IF ~IsBlank(main_content) THEN main_content ELSE <<>>) \o TabsText(doc_data.tabs)

\* The documents get_doc_content is tried on.
RunContents == { <<"a">>, <<"b">>, <<" ">> }

TextRun(content) == [textRun |-> Some([content |-> Some(content)])]

ParagraphElements ==
    {TextRun(c) : c \in RunContents}
    \cup { [textRun |-> Some([content |-> None])], [textRun |-> None] }

Paragraph(para_elements) == [tag |-> "paragraph", elements |-> para_elements]

Table(table_rows) == [tag |-> "table", tableRows |-> table_rows]

SectionBreak == [tag |-> "sectionBreak"]

Paragraphs == {Paragraph(pes) : pes \in SeqsUpTo(ParagraphElements, MaxRuns)}

Line(piece) == Paragraph(<< TextRun(<<piece>>) >>)

CellContents == { <<>>, << Line("a") >>, << Line(" ") >>, << Line("b"), Line("a") >> }

\* n tables in one another: the cell of the table at level k holds a
\* paragraph naming k and, below it, the table of level k + 1.
RECURSIVE NestedTable(_, _)
NestedTable(k, n) ==
    Table(<< << << Line(ToString(k)) >>
                \o (IF k < n THEN << NestedTable(k + 1, n) >> ELSE <<>>) >> >>)

Bodies ==
    { << SectionBreak, p1, p2 >> :
          p1 \in Paragraphs, p2 \in { Paragraph(<<>>), Line(" "), Line("a") } }
    \cup { << SectionBreak, Line("b"), p2 >> : p2 \in Paragraphs }
    \cup { << Line("a"), Table(<< <<c1, c2>>, <<c3>> >>), Line("b") >> :
              c1 \in CellContents, c2 \in CellContents, c3 \in CellContents }
    \cup { << Line("a"), NestedTable(1, n), Line("b") >> : n \in 1 .. MaxNesting }

TabBodies == { <<>>, << Line("a") >>, << Line(" ") >> }

Tab(title, body, child_tabs) ==
    [documentTab |-> Some([title |-> title, body |-> body]), childTabs |-> child_tabs]

LeafTabs == {Tab(t, b, <<>>) : t \in {Some(<<"Notes">>), None}, b \in {<<>>, << Line("a") >>}}

ParentTabs ==
    {Tab(Some(<<"Plan">>), b, cs) : b \in TabBodies, cs \in SeqsUpTo(LeafTabs, MaxChildren)}

TabLists ==
    { <<>> }
    \cup { <<t>> : t \in ParentTabs }
    \cup { <<t1, t2>> : t1 \in ParentTabs, t2 \in LeafTabs }
    \cup { << Tab(None, <<>>, <<t>>) >> : t \in ParentTabs }

DocDatas ==
    { [body |-> b, tabs |-> <<>>] : b \in Bodies }
    \cup { [body |-> b, tabs |-> ts] : b \in { <<>>, << Line("b") >> }, ts \in TabLists }

\* get_doc_content up to its first await: Drive is asked for the metadata
\* of the file, and the handler stays suspended until ReadDocContent.
GetDocContent ==
    /\ Idle
    /\ Len(doc) <= MaxDocLen
    /\ call' = [operation |-> "get_doc_content", others |-> 0]
    /\ reported' = None
    /\ outcome' = "pending"
    /\ apiCalls' = 0
    /\ requests' = <<>>
    /\ prevDoc' = doc
    /\ UNCHANGED <<doc, sections>>

\* get_doc_content on a native document, from the answer of Drive on: the
\* document is read as the service holds it by then, the tree the service
\* returns is walked and the text handed back.
ReadDocContent ==
    /\ call.operation = "get_doc_content"
    /\ Suspended
    /\ \E doc_data \in DocDatas :
          /\ call' = [operation |-> "get_doc_content", doc_data |-> doc_data,
                      others |-> call.others]
          /\ reported' = Some(get_doc_content(doc_data))
          /\ outcome' = "ok"
          /\ UNCHANGED <<doc, prevDoc, requests, apiCalls, sections>>

\* One run of get_doc_content, with the other invocations that run while
\* it is suspended.
NextParser ==
    \/ GetDocContent
    \/ OtherInvocation
    \/ ReadDocContent

SpecParser == Init /\ [][NextParser]_vars

\* ------------------------------------------------------------------------
\* Claims C17 - C19: text extraction
\* ------------------------------------------------------------------------
\* get_doc_content has read the document.
GetDocCall == call.operation = "get_doc_content" /\ ~Suspended

RECURSIVE Concat(_)
Concat(ss) == IF ss = <<>> THEN <<>> ELSE Head(ss) \o Concat(Tail(ss))

Max(S) == CHOOSE m \in S : \A n \in S : n <= m

\* The content string of an element of a paragraph, empty when it has none.
RunContent(pe) ==
    IF pe.textRun = None \/ Val(pe.textRun).content = None THEN <<>>
    ELSE Val(Val(pe.textRun).content)

TextOfParagraph(paragraph) ==
    Concat([k \in DOMAIN paragraph.elements |-> RunContent(paragraph.elements[k])])

\* The texts of the paragraphs of a body nested at most levels tables deep,
\* in document order: rows in order, cells in order within a row.
RECURSIVE ParagraphsWithin(_, _)
ParagraphsWithin(elements, levels) ==
    Concat([k \in DOMAIN elements |->
        IF elements[k].tag = "paragraph" THEN << TextOfParagraph(elements[k]) >>
        ELSE IF elements[k].tag = "table" /\ levels > 0
        THEN LET rows == elements[k].tableRows
             IN  Concat([r \in DOMAIN rows |->
                     Concat([c \in DOMAIN rows[r] |->
                         ParagraphsWithin(rows[r][c], levels - 1)])])
        ELSE <<>>])

\* The number of table levels the deepest content of a body is nested in.
CellsOfTable(t) ==
    UNION {{t.tableRows[r][c] : c \in DOMAIN t.tableRows[r]} : r \in DOMAIN t.tableRows}

TablesOf(elements) ==
    {elements[k] : k \in {j \in DOMAIN elements : elements[j].tag = "table"}}

RECURSIVE NestingOf(_)
NestingOf(elements) ==
    Max({0} \cup {1 + NestingOf(cell) :
                     cell \in UNION {CellsOfTable(t) : t \in TablesOf(elements)}})

NotBlank(text) == ~IsBlank(text)

\* The paragraph texts that are not only whitespace, joined.
JoinedText(texts) == Concat(SelectSeq(texts, NotBlank))

\* C17: extraction returns a result for a document of any table-in-cell
\* nesting depth: content nested at most 5 table levels deep is returned in
\* full, and what is nested deeper contributes the empty string while the
\* rest of the document is still extracted.
C17_ExtractionCappedAtFiveLevels ==
    (GetDocCall /\ call.doc_data.tabs = <<>>) =>
        LET body == call.doc_data.body
        IN  /\ outcome = "ok"
            /\ Val(reported) = JoinedText(ParagraphsWithin(body, 5))
            /\ NestingOf(body) <= 5 =>
                  Val(reported) = JoinedText(ParagraphsWithin(body, NestingOf(body)))

\* Six tables in one another between two paragraphs: the paragraphs of
\* levels 1 to 5 are returned, the one of level 6 is not.
C17_Witness ==
    /\ GetDocCall
    /\ call.doc_data.body = << Line("a"), NestedTable(1, 6), Line("b") >>
    /\ reported = Some(<< "a", "1", "2", "3", "4", "5", "b" >>)

\* The tabs of a list with their descendants, depth first, parents first,
\* each with its nesting level.
RECURSIVE TabsPreOrder(_, _)
TabsPreOrder(tabs, level) ==
    Concat([k \in DOMAIN tabs |->
        << [tab |-> tabs[k], level |-> level] >>
        \o TabsPreOrder(tabs[k].childTabs, level + 1)])

\* The block of a tab of the given level: the header line, its title
\* indented by 4 spaces for every level, then the text of the tab's body.
TabBlock(tab, level) ==
    LET documentTab == Val(tab.documentTab)
        title == IF documentTab.title = None THEN << "Untitled Tab" >>
                 ELSE Val(documentTab.title)
    IN  << "\n--- TAB: " >> \o [k \in 1 .. level |-> "    "] \o title \o << " ---\n" >>
        \o JoinedText(ParagraphsWithin(documentTab.body, 5))

\* C18: the output is the text of the main body, then one block for every
\* tab: each top-level tab in list order, followed by its descendants in
\* depth-first pre-order; a block begins with the tab's header line, in
\* which the title of a tab of level n is indented by n units of 4 spaces.
C18_TabsInPreOrderWithIndentedHeaders ==
    GetDocCall =>
        LET blocks == TabsPreOrder(call.doc_data.tabs, 0)
        IN  Val(reported) =
                JoinedText(ParagraphsWithin(call.doc_data.body, 5))
                \o Concat([k \in DOMAIN blocks |-> TabBlock(blocks[k].tab, blocks[k].level)])

\* One tab with one child tab, each with one paragraph.
C18_Witness ==
    /\ GetDocCall
    /\ call.doc_data.tabs =
          << Tab(Some(<<"Plan">>), << Line("a") >>,
                 << Tab(Some(<<"Notes">>), << Line("a") >>, <<>>) >>) >>
    /\ call.doc_data.body = << Line("b") >>
    /\ reported = Some(<< "b", "\n--- TAB: ", "Plan", " ---\n", "a",
                          "\n--- TAB: ", "    ", "Notes", " ---\n", "a" >>)

\* What an element of a body adds to the text of the body: a paragraph its
\* text unless that is only whitespace, a table the texts of its cells.
ElementContribution(element) ==
    IF element.tag = "paragraph"
    THEN IF IsBlank(TextOfParagraph(element)) THEN <<>> ELSE TextOfParagraph(element)
    ELSE IF element.tag = "table"
    THEN Concat([r \in DOMAIN element.tableRows |->
             Concat([c \in DOMAIN element.tableRows[r] |->
                 extract_text_from_elements(element.tableRows[r][c], None, 1)])])
    ELSE <<>>

\* C19: the text of a paragraph is the content of its text runs joined in
\* element order, elements without a text run or without content adding
\* nothing; the text of a body is its paragraphs' texts and its table
\* cells' texts (rows in order, cells in order) joined in order, and no
\* paragraph whose text is not only whitespace is left out or moved.
C19_BodyTextIsInOrderConcatenation ==
    (GetDocCall /\ call.doc_data.tabs = <<>>) =>
        LET body == call.doc_data.body
        IN  /\ Val(reported) = Concat([k \in DOMAIN body |-> ElementContribution(body[k])])
            /\ \A k \in DOMAIN body :
                  body[k].tag = "table" =>
                      \A r \in DOMAIN body[k].tableRows :
                         \A c \in DOMAIN body[k].tableRows[r] :
                            NestingOf(body[k].tableRows[r][c]) < 5 =>
                               extract_text_from_elements(body[k].tableRows[r][c], None, 1)
                               = JoinedText(ParagraphsWithin(body[k].tableRows[r][c], 4))

\* Two paragraphs: a run "b"; an element without text run and a run "a".
C19_Witness ==
    /\ GetDocCall
    /\ call.doc_data.body =
          << SectionBreak, Line("b"),
             Paragraph(<< [textRun |-> None], TextRun(<<"a">>) >>) >>
    /\ reported = Some(<< "b", "a" >>)

\* ------------------------------------------------------------------------
\* TableOperationManager: the cells of a table (gdocs.managers)
\* ------------------------------------------------------------------------
\* In this part the table is held in the document unit by unit, as the
\* service lays it out: the creation at index puts a newline at index, then
\* the table start "T", and for every row its start "R" followed, for
\* every cell, by the cell start "C" and the newline that ends the cell's
\* empty paragraph.
RECURSIVE Repeat(_, _)
Repeat(units, n) == IF n = 0 THEN <<>> ELSE units \o Repeat(units, n - 1)

EmptyTableUnits(rows, columns) ==
    << "\n", "T" >> \o Repeat(<< "R" >> \o Repeat(<< "C", "\n" >>, columns), rows)

\* The service accepts a text at a position that holds text, not at the
\* start of a table, row or cell.
ValidCellWrite(d, i) == ValidInsertIndex(d, i) /\ d[i + 1] \notin {"T", "R", "C"}

\* The position at which text lands inside cell (row, column), counted
\* from 0, of the empty table of the given width created at index.
cell_insertion_index(index, columns, row, column) ==
    index + 4 + row * (1 + 2 * columns) + 2 * column

\* The cells of the table in row order, each with its insertion index and
\* its text.
compute_cell_insertion_indices(index, table_data) ==
    LET rows == Len(table_data)
        columns == Len(table_data[1])
    IN  [k \in 1 .. rows * columns |->
            LET row == (k - 1) \div columns
                column == (k - 1) % columns
            IN  [row |-> row, column |-> column,
                 index |-> cell_insertion_index(index, columns, row, column),
                 text |-> table_data[row + 1][column + 1]]]

HasText(cell) == cell.text # <<>>

\* The order in which the cells are written: every cell with a text,
\* first row first.
WriteOrder_Ascending(cells) == SelectSeq(cells, HasText)

\* The order in which the cells are written: every cell with a text, by
\* descending insertion index.
WriteOrder(cells) ==
    SelectSeq([k \in DOMAIN cells |-> cells[Len(cells) + 1 - k]], HasText)

RECURSIVE Utf16Length(_)
\* The number of positions the texts of the cells take.
Utf16Length(cells) ==
    IF cells = <<>> THEN 0 ELSE Len(Utf16(Head(cells).text)) + Utf16Length(Tail(cells))

\* The range of the first row once every cell is populated: from the start
\* of the row to the end of its last cell.
header_row_range(index, table_data, cells) ==
    LET columns == Len(table_data[1])
        first_row == SelectSeq(cells, LAMBDA cell : cell.row = 0)
    IN  [startIndex |-> index + 2,
         endIndex |-> index + 2 + 1 + 2 * columns + Utf16Length(first_row)]

CellTexts == {[k \in 1 .. n |-> "x"] : n \in 0 .. MaxCellLen} \cup { <<"W">> }

TableContents ==
    { << <<a>> >> : a \in CellTexts }
    \cup { << <<a, b>> >> : a \in CellTexts, b \in CellTexts }
    \cup { << <<a>>, <<b>> >> : a \in CellTexts, b \in CellTexts }
    \cup { << <<a, b>>, <<c, d>> >> :
              a \in CellTexts, b \in CellTexts, c \in CellTexts, d \in CellTexts }

\* The documents a table is created in.
TableDocuments == { <<"S", "\n">>, <<"S", "x", "\n">>, <<"S", "Wh", "Wl", "x", "\n">> }

InitTable ==
    /\ doc \in TableDocuments
    /\ prevDoc = doc
    /\ call = [operation |-> "none"]
    /\ requests = <<>>
    /\ apiCalls = 0
    /\ outcome = "none"
    /\ reported = None
    /\ sections = {}

\* create_empty_table, at an index the service accepts.
CreateEmptyTable ==
    /\ Idle
    /\ \E index \in 1 .. DocEnd(doc) - 1, table_data \in TableContents,
          bold_headers \in BOOLEAN :
          /\ ValidInsertIndex(doc, index)
          /\ validate_table_data(table_data)
          /\ call' = [operation |-> "create_and_populate_table",
                      step |-> "compute_cell_insertion_indices",
                      index |-> index, table_data |-> table_data,
                      bold_headers |-> bold_headers, cells |-> <<>>, pending |-> <<>>]
          /\ requests' = << create_insert_table_request(index, Len(table_data),
                                                        Len(table_data[1])) >>
          /\ apiCalls' = 1
          /\ doc' = InsertUnits(doc, index,
                                EmptyTableUnits(Len(table_data), Len(table_data[1])))
          /\ prevDoc' = doc
          /\ outcome' = "none"
          /\ UNCHANGED <<reported, sections>>

\* compute_cell_insertion_indices: every cell's index, and the order of
\* the writes, before any write.
ComputeCellInsertionIndices ==
    /\ call.operation = "create_and_populate_table"
    /\ call.step = "compute_cell_insertion_indices"
    /\ LET cells == compute_cell_insertion_indices(call.index, call.table_data)
       IN  call' = [call EXCEPT !.step = "populate_cells", !.cells = cells,
                                !.pending = WriteOrder(cells)]
    /\ UNCHANGED <<doc, prevDoc, requests, apiCalls, outcome, reported, sections>>

\* populate_cells: the next write of the order, at the index computed for
\* its cell.
PopulateCell ==
    /\ call.operation = "create_and_populate_table"
    /\ call.step = "populate_cells"
    /\ call.pending # <<>>
    /\ LET cell == Head(call.pending)
           write == create_insert_text_request(cell.index, cell.text)
       IN  /\ requests' = Append(requests, write)
           /\ apiCalls' = apiCalls + 1
           /\ IF ValidCellWrite(doc, cell.index)
              THEN /\ doc' = ApplyRequest(doc, write)
                   /\ call' = [call EXCEPT !.pending = Tail(call.pending)]
                   /\ outcome' = outcome
              ELSE /\ doc' = doc
                   /\ call' = [call EXCEPT !.step = "failed"]
                   /\ outcome' = "error"
    /\ UNCHANGED <<prevDoc, reported, sections>>

\* format_headers, or the end of the run when no bold headers are asked
\* for: the first row is made bold once nothing is left to write.
FormatHeaders ==
    /\ call.operation = "create_and_populate_table"
    /\ call.step = "populate_cells"
    /\ call.pending = <<>>
    /\ call' = [call EXCEPT !.step = "done"]
    /\ outcome' = "ok"
    /\ IF call.bold_headers
       THEN LET range == header_row_range(call.index, call.table_data, call.cells)
            IN  /\ requests' = Append(requests,
                       create_format_text_request(range.startIndex, range.endIndex,
                                                  Some(TRUE), None))
                /\ apiCalls' = apiCalls + 1
       ELSE UNCHANGED <<requests, apiCalls>>
    /\ UNCHANGED <<doc, prevDoc, reported, sections>>

NextTable ==
    \/ CreateEmptyTable
    \/ ComputeCellInsertionIndices
    \/ PopulateCell
    \/ FormatHeaders

SpecTable == InitTable /\ [][NextTable]_vars

\* ------------------------------------------------------------------------
\* Claim C20: the cells of a table
\* ------------------------------------------------------------------------
TableManagerRun == call.operation = "create_and_populate_table"

\* The places of the cell starts of d, in order.
CellStarts(d) == SelectSeq([j \in 1 .. Len(d) |-> j], LAMBDA j : d[j] = "C")

\* What the k-th cell of d holds: the units between its start and the
\* newline that ends its paragraph.
CellContent(d, k) ==
    LET p == CellStarts(d)[k]
        q == CHOOSE j \in p + 1 .. Len(d) :
                 d[j] = "\n" /\ \A i \in p + 1 .. j - 1 : d[i] # "\n"
    IN  SubSeq(d, p + 1, q - 1)

IsPending(cell) == \E k \in DOMAIN call.pending : call.pending[k] = cell

\* The place of the last unit of the first row of d, which is the position
\* after the row.
FirstRowEnd(d) ==
    LET rowStarts == SelectSeq([j \in 1 .. Len(d) |-> j], LAMBDA j : d[j] = "R")
        last == CellStarts(d)[Len(CellStarts(d))]
    IN  IF Len(rowStarts) > 1 THEN rowStarts[2] - 1
        ELSE last + Len(CellContent(d, Len(CellStarts(d)))) + 1

\* C20: the manager has the insertion index of every cell before it issues
\* a cell write, and writes the cells in descending index order, so that
\* whatever the lengths of the texts every write is accepted and lands in
\* its own cell, the cells not yet written and the document around the
\* table being untouched; the header row is made bold only after every
\* cell is populated, over the range the first row then has.
C20_CellWritesLandInTheirCells ==
    TableManagerRun =>
        LET writes == SelectSeq(requests, LAMBDA r : r.kind = "insertText")
            styles == SelectSeq(requests, LAMBDA r : r.kind = "updateTextStyle")
        IN  /\ outcome # "error"
            /\ writes # <<>> => call.cells # <<>>
            /\ \A i, j \in DOMAIN writes : i < j => writes[i].index > writes[j].index
            /\ Len(CellStarts(doc)) = Len(call.table_data) * Len(call.table_data[1])
            /\ call.cells = <<>> => \A k \in DOMAIN CellStarts(doc) : CellContent(doc, k) = <<>>
            /\ \A k \in DOMAIN call.cells :
                  CellContent(doc, k) = IF IsPending(call.cells[k]) THEN <<>>
                                        ELSE Utf16(call.table_data[call.cells[k].row + 1]
                                                                  [call.cells[k].column + 1])
            /\ SubSeq(doc, 1, call.index) = SubSeq(prevDoc, 1, call.index)
            /\ SubSeq(doc, Len(doc) - (Len(prevDoc) - call.index) + 1, Len(doc))
               = SubSeq(prevDoc, call.index + 1, Len(prevDoc))
            /\ styles # <<>> =>
                  /\ Len(styles) = 1
                  /\ requests[Len(requests)].kind = "updateTextStyle"
                  /\ call.pending = <<>>
                  /\ Len(writes) = Cardinality({k \in DOMAIN call.cells : HasText(call.cells[k])})
                  /\ doc[styles[1].startIndex + 1] = "R"
                  /\ styles[1].endIndex = FirstRowEnd(doc)
                  /\ ValidRange(doc, styles[1].startIndex, styles[1].endIndex)

\* A table of two rows and two columns, texts of three different lengths,
\* populated and its header row made bold.
C20_Witness ==
    /\ TableManagerRun
    /\ call.step = "done"
    /\ call.bold_headers
    /\ call.table_data = << << <<"x", "x">>, <<"W">> >>, << <<"x">>, <<"x", "x">> >> >>
    /\ prevDoc = <<"S", "x", "\n">>
    /\ call.index = 1
    /\ Len(requests) = 6
    /\ doc = << "S", "\n", "T", "R", "C", "x", "x", "\n", "C", "Wh", "Wl", "\n",
                "R", "C", "x", "\n", "C", "x", "x", "\n", "x", "\n" >>

\* ------------------------------------------------------------------------
\* Claim C21: the list scenario
\* ------------------------------------------------------------------------
\* The list item "Buy milk" is inserted at index 20.
BuyMilkCall ==
    /\ ElementCall("list")
    /\ call.index = 20
    /\ call.text = Some(<<"B", "u", "y", " ", "m", "i", "l", "k">>)

\* C21: inserting the list item "Buy milk" at index 20 builds exactly the
\* batch [insertText(20, "Buy milk" + newline), createParagraphBullets over
\* the range [20, 30)].
C21_BuyMilkBulletsTo30 ==
    BuyMilkCall =>
        requests = << [kind |-> "insertText", index |-> 20,
                       text |-> <<"B", "u", "y", " ", "m", "i", "l", "k", "\n">>],
                      [kind |-> "createParagraphBullets", startIndex |-> 20,
                       endIndex |-> 30, list_type |-> Val(call.list_type)] >>

\* C21 as amended: "Buy milk" has 8 characters, and the bullet range is
\* [20, 29): the 8 characters and the newline.
C21_BuyMilkBulletsTo29 ==
    BuyMilkCall =>
        requests = << [kind |-> "insertText", index |-> 20,
                       text |-> <<"B", "u", "y", " ", "m", "i", "l", "k", "\n">>],
                      [kind |-> "createParagraphBullets", startIndex |-> 20,
                       endIndex |-> 29, list_type |-> Val(call.list_type)] >>

C21_Witness ==
    /\ BuyMilkCall
    /\ call.list_type = Some("UNORDERED")
    /\ apiCalls = 1
    /\ Len(requests) = 2

\* ------------------------------------------------------------------------
\* Claims C24 - C26: lengths, delete ranges and table indexes
\* ------------------------------------------------------------------------
\* C24: the length edit_text uses to shift the delete range of an index-0
\* replace and to size the format range of a new text, and the length the
\* list insertion uses for the bullet range, is the number of UTF-16
\* positions the text occupies in the document.
C24_LengthIsUtf16Positions ==
    /\ (ReplaceCall /\ Val(call.start_index) = 0 /\ Len(requests) >= 2) =>
          /\ requests[2].kind = "deleteContentRange"
          /\ requests[2].startIndex - 1 = Len(Utf16(Val(call.text)))
    /\ (EditCall /\ FormattingCall /\ ~IsNone(call.text) /\ call.text # Some(<<>>)
          /\ Val(call.start_index) >= 1) =>
          \A k \in RequestsOfKind("updateTextStyle") :
              requests[k].endIndex - requests[k].startIndex = Len(Utf16(Val(call.text)))
    /\ (ElementCall("list") /\ ~IsNone(call.text) /\ call.text # Some(<<>>)) =>
          \A k \in RequestsOfKind("createParagraphBullets") :
              requests[k].endIndex - requests[k].startIndex - 1
                  = Len(Utf16(Val(call.text)))

\* C25: every deleteContentRange request built by the replace branch of
\* edit_text has startIndex < endIndex, also for start_index = 0 with
\* end_index = 1.
C25_DeleteRangeNotEmpty ==
    ReplaceCall =>
        \A k \in RequestsOfKind("deleteContentRange") :
            requests[k].startIndex < requests[k].endIndex

\* C26: every table creation the table operation attempts, the first and
\* the retry, is at an index >= 1: position 0 and negative positions are
\* never used for a table creation.
C26_TableCreatedAtIndexFrom1 ==
    TableRun =>
        \A k \in DOMAIN requests :
            requests[k].kind = "insertTable" /\ requests[k].index >= 1

\* ------------------------------------------------------------------------
\* Task hierarchy (gtasks.tasks_tools): get_structured_tasks,
\* sort_structured_tasks, serialize_tasks
\* ------------------------------------------------------------------------
\* A task of the flat list is a record of id, title, parent and position;
\* a key the dictionary lacks is None. A position is a string of decimal
\* digits. The StructuredTask objects are kept in a map from id to object,
\* as the code keeps them in tasks_by_id, with the virtual root under a
\* key of its own; an object's subtasks are the ids of its children.
MaxTasks == 3

Digits == <<"0", "1", "2", "3", "4", "5", "6", "7", "8", "9">>

DigitValue(c) == (CHOOSE k \in DOMAIN Digits : Digits[k] = c) - 1

\* int(task["position"])
RECURSIVE int(_)
int(s) ==
    IF s = <<>> THEN 0
    ELSE 10 * int(SubSeq(s, 1, Len(s) - 1)) + DigitValue(s[Len(s)])

\* not parent_id: the key is missing, or its value is the empty string.
IsFalsy(value) == IsNone(value) \/ Val(value) = ""

RootKey == "root"

StructuredTask(task, is_placeholder_parent) ==
    [id |-> task.id, title |-> task.title,
     is_placeholder_parent |-> is_placeholder_parent, subtasks |-> <<>>]

add_subtask(objects, parent, subtask) ==
    [objects EXCEPT ![parent].subtasks = Append(@, subtask)]

\* The object made for a task of the list, marked as a placeholder.
TaskObject_AsPlaceholder(task) == StructuredTask(task, TRUE)

\* The object made for a task of the list.
TaskObject(task) == StructuredTask(task, FALSE)

tasks_by_id(tasks) ==
    [id \in {tasks[k].id : k \in DOMAIN tasks} |->
        TaskObject(tasks[CHOOSE k \in DOMAIN tasks :
                            /\ tasks[k].id = id
                            /\ \A j \in DOMAIN tasks : tasks[j].id = id => j <= k])]

positions_by_id(tasks) ==
    [id \in {tasks[k].id : k \in {j \in DOMAIN tasks : ~IsNone(tasks[j].position)}} |->
        int(Val(tasks[CHOOSE k \in DOMAIN tasks :
                         /\ tasks[k].id = id /\ ~IsNone(tasks[k].position)
                         /\ \A j \in DOMAIN tasks :
                               (tasks[j].id = id /\ ~IsNone(tasks[j].position)) => j <= k]
                .position))]

\* The loop over the tasks: each is appended to the subtasks of the root,
\* of its parent, or of a placeholder made for the missing parent and
\* appended to the root.
RECURSIVE LinkTasks(_, _)
LinkTasks(objects, tasks) ==
    IF tasks = <<>> THEN objects
    ELSE LET task == Head(tasks)
             parent_id == task.parent
             linked ==
                 IF IsFalsy(parent_id)
                 THEN add_subtask(objects, RootKey, task.id)
                 ELSE IF Val(parent_id) \in DOMAIN objects \ {RootKey}
                      THEN add_subtask(objects, Val(parent_id), task.id)
                      ELSE LET parent == StructuredTask([id |-> Val(parent_id),
                                                          title |-> None], TRUE)
                               registered == objects @@ (Val(parent_id) :> parent)
                           IN  add_subtask(add_subtask(registered, RootKey, Val(parent_id)),
                                           Val(parent_id), task.id)
         IN  LinkTasks(linked, Tail(tasks))

\* get_position: None stands for float("inf").
get_position(id, positions) ==
    IF id \in DOMAIN positions THEN Some(positions[id]) ELSE None

\* p < q with the missing position sorting first.
PositionBefore_MissingFirst(p, q) ==
    ~IsNone(q) /\ (IsNone(p) \/ Val(p) < Val(q))

\* p < q for two sort keys, the missing position being infinity.
PositionBefore(p, q) ==
    ~IsNone(p) /\ (IsNone(q) \/ Val(p) < Val(q))

\* list.sort(key=get_position): stable, ascending.  id stood before every
\* task of sorted in the list being sorted, so it goes before the first of
\* them whose key is not smaller than its own.
RECURSIVE InsertSorted(_, _, _)
InsertSorted(sorted, id, positions) ==
    IF sorted = <<>> THEN <<id>>
    ELSE IF ~PositionBefore(get_position(Head(sorted), positions),
                            get_position(id, positions))
         THEN <<id>> \o sorted
         ELSE <<Head(sorted)>> \o InsertSorted(Tail(sorted), id, positions)

RECURSIVE SortedByPosition(_, _)
SortedByPosition(ids, positions) ==
    IF ids = <<>> THEN <<>>
    ELSE InsertSorted(SortedByPosition(Tail(ids), positions), Head(ids), positions)

RECURSIVE sort_structured_tasks(_, _, _)
RECURSIVE SortSubtasks(_, _, _)
sort_structured_tasks(objects, key, positions) ==
    LET sorted == [objects EXCEPT ![key].subtasks = SortedByPosition(@, positions)]
    IN  SortSubtasks(sorted, sorted[key].subtasks, positions)

SortSubtasks(objects, keys, positions) ==
    IF keys = <<>> THEN objects
    ELSE SortSubtasks(sort_structured_tasks(objects, Head(keys), positions),
                      Tail(keys), positions)

\* The objects after linking and sorting; the forest returned is the
\* subtasks of the root.
get_structured_tasks(tasks) ==
    LET root_task == StructuredTask([id |-> RootKey, title |-> Some("Root")], FALSE)
        objects == tasks_by_id(tasks) @@ (RootKey :> root_task)
    IN  sort_structured_tasks(LinkTasks(objects, tasks), RootKey, positions_by_id(tasks))

\* The text of serialize_tasks as a list of entries: one per task (its
\* level of indentation, bullet, title and id), followed by those of its
\* subtasks, and the notice that counts the placeholders of the level.
\* raised: the assertion subtask_level == 0 failed at some level.
RECURSIVE serialize_tasks(_, _, _)
RECURSIVE SerializeEach(_, _, _)
serialize_tasks(objects, structured_tasks, subtask_level) ==
    LET each == SerializeEach(objects, structured_tasks, subtask_level)
    IN  IF each.placeholder_parent_count > 0
        THEN [raised |-> each.raised \/ subtask_level # 0,
              response |-> Append(each.response,
                                  [notice |-> each.placeholder_parent_count])]
        ELSE [raised |-> each.raised, response |-> each.response]

SerializeEach(objects, structured_tasks, subtask_level) ==
    IF structured_tasks = <<>>
    THEN [raised |-> FALSE, response |-> <<>>, placeholder_parent_count |-> 0]
    ELSE LET task == objects[Head(structured_tasks)]
             counted == IsNone(task.title) /\ task.is_placeholder_parent
             title == IF ~IsNone(task.title) THEN Val(task.title)
                      ELSE IF task.is_placeholder_parent THEN "Unknown parent"
                      ELSE "Untitled"
             entry == [indent |-> subtask_level,
                       bullet |-> IF subtask_level = 0 THEN "-" ELSE "*",
                       title |-> title, id |-> task.id]
             below == serialize_tasks(objects, task.subtasks, subtask_level + 1)
             rest == SerializeEach(objects, Tail(structured_tasks), subtask_level)
         IN  [raised |-> below.raised \/ rest.raised,
              response |-> <<entry>> \o below.response \o rest.response,
              placeholder_parent_count |->
                  rest.placeholder_parent_count + (IF counted THEN 1 ELSE 0)]

\* The flat lists given to get_structured_tasks: up to MaxTasks tasks of
\* distinct ids; a task has no parent, or its parent is the id of one of
\* the first two tasks of the list (the task's own included) or an id the
\* list lacks. The tasks of a list are sparse dictionaries (no title, no
\* parent key on a task without parent) or full ones (a title, the empty
\* string as the parent of a task without parent).
TaskIdPool == <<"a", "b", "c", "d", "e">>

ParentIds == {"a", "b", "y"}

Positions == {<<"2">>, <<"1", "0">>}

Parents == Opt(ParentIds)

\* The tasks are listed and serialized: lines 445-448 of manage_task.
StructureTasks ==
    /\ Idle
    /\ \E n \in 1 .. MaxTasks, full \in BOOLEAN :
          \E parent \in [1 .. n -> Parents], position \in [1 .. n -> Opt(Positions)] :
             LET tasks == [k \in 1 .. n |->
                              [id |-> TaskIdPool[k],
                               title |-> IF full THEN Some(TaskIdPool[k]) ELSE None,
                               parent |-> IF full /\ IsNone(parent[k]) THEN Some("")
                                          ELSE parent[k],
                               position |-> position[k]]]
                 objects == get_structured_tasks(tasks)
                 text == serialize_tasks(objects, objects[RootKey].subtasks, 0)
             IN  /\ call' = [operation |-> "get_structured_tasks", tasks |-> tasks]
                 /\ reported' = Some([structured_tasks |-> objects[RootKey].subtasks,
                                      objects |-> objects, response |-> text.response])
                 /\ outcome' = IF text.raised THEN "assertion_error" ELSE "ok"
                 /\ requests' = <<>>
                 /\ apiCalls' = 0
                 /\ UNCHANGED <<doc, prevDoc, sections>>

NextTasks == StructureTasks \/ Return

SpecTasks == Init /\ [][NextTasks]_vars

\* ------------------------------------------------------------------------
\* Claims C22, C27, C28: the task forest
\* ------------------------------------------------------------------------
TasksCall == call.operation = "get_structured_tasks"

\* The ids met walking the forest from the entries keys, in pre-order, an
\* id once for every place it appears at.
RECURSIVE ForestIds(_, _)
ForestIds(objects, keys) ==
    IF keys = <<>> THEN <<>>
    ELSE <<Head(keys)>> \o ForestIds(objects, objects[Head(keys)].subtasks)
                        \o ForestIds(objects, Tail(keys))

Occurrences(id, ids) == Cardinality({k \in DOMAIN ids : ids[k] = id})

\* The position the flat list gives the task id, if any.
PositionOf(id) ==
    LET with == {k \in DOMAIN call.tasks :
                    call.tasks[k].id = id /\ ~IsNone(call.tasks[k].position)}
    IN  IF with = {} THEN None
        ELSE Some(int(Val(call.tasks[CHOOSE k \in with : TRUE].position)))

\* The siblings ids are in ascending order of integer position, those
\* without a position last.
Ordered(ids) ==
    \A i, j \in DOMAIN ids :
        i < j =>
            /\ (~IsNone(PositionOf(ids[i])) /\ ~IsNone(PositionOf(ids[j]))) =>
                  Val(PositionOf(ids[i])) <= Val(PositionOf(ids[j]))
            /\ IsNone(PositionOf(ids[i])) => IsNone(PositionOf(ids[j]))

\* C22: get_structured_tasks orders the tasks by position at every level:
\* the top-level tasks, and the subtasks of every task of the forest, are
\* in ascending order of their integer position, and a task without a
\* position comes after all its siblings that have one.
C22_SiblingsOrderedByPosition ==
    TasksCall =>
        LET r == Val(reported)
            met == ForestIds(r.objects, r.structured_tasks)
        IN  /\ Ordered(r.structured_tasks)
            /\ \A k \in DOMAIN met : Ordered(r.objects[met[k]].subtasks)

\* Two subtasks of one parent listed in descending order of position, with
\* a third that has no position: "10", then none, then "2".
C22_Witness ==
    /\ TasksCall
    /\ Len(call.tasks) = 3
    /\ call.tasks[1].position = Some(<<"1", "0">>)
    /\ call.tasks[2].position = None
    /\ call.tasks[3].position = Some(<<"2">>)
    /\ \A k \in 1 .. 3 : call.tasks[k].parent = Some("y")
    /\ Val(reported).objects["y"].subtasks = <<"c", "a", "b">>

\* C27: the placeholder parents are direct children of the virtual root
\* only, never subtasks of another task, and the assertion of
\* serialize_tasks holds on the result.
C27_PlaceholdersAtTopLevelOnly ==
    TasksCall =>
        LET r == Val(reported)
        IN  /\ outcome = "ok"
            /\ \A id \in DOMAIN r.objects \ {RootKey} :
                  \A k \in DOMAIN r.objects[id].subtasks :
                      ~r.objects[r.objects[id].subtasks[k]].is_placeholder_parent

\* A placeholder parent with a subtask that has no title beside a task
\* with a subtask of its own.
C27_Witness ==
    /\ TasksCall
    /\ \E k \in DOMAIN call.tasks : call.tasks[k].parent = Some("y")
    /\ \E k \in DOMAIN call.tasks : call.tasks[k].parent = Some("a")
    /\ call.tasks[1].title = None
    /\ Val(reported).objects["y"].is_placeholder_parent
    /\ \E k \in DOMAIN Val(reported).response :
          /\ "notice" \in DOMAIN Val(reported).response[k]
          /\ Val(reported).response[k].notice = 1

\* C28: every task of a flat list of distinct ids appears exactly once in
\* the forest returned, whatever the parent links are.
C28_EveryTaskOnceInForest ==
    TasksCall =>
        LET r == Val(reported)
            met == ForestIds(r.objects, r.structured_tasks)
        IN  \A k \in DOMAIN call.tasks : Occurrences(call.tasks[k].id, met) = 1

\* ------------------------------------------------------------------------
\* Pause middleware (core.pause_middleware)
\* ------------------------------------------------------------------------
\* The process environment and the files that exist are the state the
\* middleware reads; in the specification SpecPause the variable doc holds
\* them, prevDoc holds them as they were when the request in hand was
\* dispatched, and apiCalls counts the calls of call_next. The value of an
\* environment variable is a sequence of characters.
UpperCase == <<"T", "R", "U", "E">>

LowerCase == <<"t", "r", "u", "e">>

\* str.lower() left out: the value as it is.
lower_AsIs(value) == value

\* str.lower()
lower(value) ==
    [k \in DOMAIN value |->
        IF \E u \in DOMAIN UpperCase : UpperCase[u] = value[k]
        THEN LowerCase[CHOOSE u \in DOMAIN UpperCase : UpperCase[u] = value[k]]
        ELSE value[k]]

\* os.getenv(name, default)
getenv(environ, name, default) ==
    IF IsNone(environ[name]) THEN default ELSE Val(environ[name])

DefaultFlagFile == <<"cwd/.workspace_mcp_paused">>

_pause_flag_file(environ) ==
    getenv(environ, "WORKSPACE_MCP_PAUSE_FILE", DefaultFlagFile)

is_paused(world) ==
    LET env_paused ==
            lower(getenv(world.environ, "WORKSPACE_MCP_PAUSED", <<"f", "a", "l", "s", "e">>))
                = <<"t", "r", "u", "e">>
        file_paused == _pause_flag_file(world.environ) \in world.files
    IN  env_paused \/ file_paused

JSONResponse(content, status_code) == [content |-> content, status_code |-> status_code]

\* PauseMiddleware.dispatch: the response returned and the number of calls
\* of call_next, whose response is downstream.
dispatch(world, path, downstream) ==
    IF is_paused(world)
    THEN IF path = "/health"
         THEN [response |-> JSONResponse([status |-> "paused",
                                          service |-> "workspace-mcp"], 200),
               calls |-> 1]
         ELSE [response |-> JSONResponse([status |-> "paused",
                                          message |-> "Service temporarily paused"], 503),
               calls |-> 0]
    ELSE [response |-> downstream, calls |-> 1]

\* Values of WORKSPACE_MCP_PAUSED, of WORKSPACE_MCP_PAUSE_FILE, the files,
\* the request paths and the responses of the downstream handler.
PausedValues ==
    { <<"t", "r", "u", "e">>, <<"T", "R", "U", "E">>, <<"T", "r", "u", "e">>,
      <<"f", "a", "l", "s", "e">>, <<"1">>, <<>> }

FlagFiles == { <<"tmp/flag">>, <<>> }

Files == { DefaultFlagFile, <<"tmp/flag">> }

Paths == {"/health", "/health/", "/mcp", "/"}

DownstreamResponses ==
    { JSONResponse([status |-> "healthy", service |-> "workspace-mcp"], 200),
      JSONResponse([result |-> "ok"], 200),
      JSONResponse([error |-> "not found"], 404) }

InitPause ==
    /\ doc = [environ |-> [WORKSPACE_MCP_PAUSED |-> None, WORKSPACE_MCP_PAUSE_FILE |-> None],
              files |-> {}]
    /\ prevDoc = doc
    /\ call = [operation |-> "none"]
    /\ requests = <<>>
    /\ apiCalls = 0
    /\ outcome = "none"
    /\ reported = None
    /\ sections = {}

\* The operator sets or unsets one of the two environment variables.
SetEnvironment ==
    /\ \/ \E value \in Opt(PausedValues) :
             doc' = [doc EXCEPT !.environ.WORKSPACE_MCP_PAUSED = value]
       \/ \E value \in Opt(FlagFiles) :
             doc' = [doc EXCEPT !.environ.WORKSPACE_MCP_PAUSE_FILE = value]
    /\ doc' # doc
    /\ UNCHANGED <<prevDoc, call, requests, apiCalls, outcome, reported, sections>>

\* The operator creates or removes a file.
TouchFile ==
    /\ \E file \in Files :
          doc' = [doc EXCEPT !.files = IF file \in @ THEN @ \ {file} ELSE @ \cup {file}]
    /\ UNCHANGED <<prevDoc, call, requests, apiCalls, outcome, reported, sections>>

\* A request arrives and is answered.
Dispatch ==
    /\ \E path \in Paths, downstream \in DownstreamResponses :
          LET d == dispatch(doc, path, downstream)
          IN  /\ call' = [operation |-> "dispatch", path |-> path, downstream |-> downstream]
              /\ reported' = Some(d.response)
              /\ apiCalls' = d.calls
              /\ outcome' = "ok"
    /\ prevDoc' = doc
    /\ UNCHANGED <<doc, requests, sections>>

NextPause == SetEnvironment \/ TouchFile \/ Dispatch

SpecPause == InitPause /\ [][NextPause]_vars

\* ------------------------------------------------------------------------
\* Claim C23: the paused service
\* ------------------------------------------------------------------------
DispatchCall == call.operation = "dispatch"

\* The service was paused when the request in hand arrived: the variable
\* WORKSPACE_MCP_PAUSED was "true" in some mix of cases, or the flag file
\* (the one WORKSPACE_MCP_PAUSE_FILE names, the default one when it is
\* unset) existed.
WasPaused ==
    LET paused == prevDoc.environ.WORKSPACE_MCP_PAUSED
        named == prevDoc.environ.WORKSPACE_MCP_PAUSE_FILE
    IN  \/ /\ ~IsNone(paused)
           /\ Len(Val(paused)) = 4
           /\ \A k \in 1 .. 4 : Val(paused)[k] \in {LowerCase[k], UpperCase[k]}
        \/ (IF IsNone(named) THEN DefaultFlagFile ELSE Val(named)) \in prevDoc.files

\* C23: while the service is paused a request whose path is not /health is
\* answered with status 503 and a paused body and is not passed to the
\* downstream handler, and a /health request is answered with status 200
\* and status "paused"; while it is not paused every request is passed to
\* the downstream handler and its response is returned unchanged.
C23_PausedAnswers503 ==
    DispatchCall =>
        LET response == Val(reported)
        IN  /\ (WasPaused /\ call.path # "/health") =>
                  /\ response.status_code = 503
                  /\ response.content.status = "paused"
                  /\ apiCalls = 0
            /\ (WasPaused /\ call.path = "/health") =>
                  /\ response.status_code = 200
                  /\ response.content.status = "paused"
            /\ ~WasPaused =>
                  /\ apiCalls = 1
                  /\ response = call.downstream

\* Paused by the variable in upper case alone, a request that is not a
\* health check.
C23_Witness ==
    /\ DispatchCall
    /\ prevDoc.environ.WORKSPACE_MCP_PAUSED = Some(<<"T", "R", "U", "E">>)
    /\ prevDoc.files = {}
    /\ call.path = "/mcp"
    /\ Val(reported).status_code = 503

\* ------------------------------------------------------------------------
\* Listing tasks page by page (gtasks.tasks_tools.manage_task, "list")
\* ------------------------------------------------------------------------
\* The position of the call is call.pc: "loop" at the test of the while
\* loop, "after" once the loop is left, "done" when the response is
\* built. requests holds the parameters of the page request in hand and
\* apiCalls counts the page requests.
LIST_TASKS_MAX_RESULTS_DEFAULT == 20

LIST_TASKS_MAX_RESULTS_MAX == 10000

MaxPage == 2

MaxResults == 3

\* Python truthiness of an Optional[str].
TruthyText(o) == ~IsNone(o) /\ Val(o) # ""

min(a, b) == IF a <= b THEN a ELSE b

\* results_remaining before the first page is counted.
ResultsWanted(max_results) ==
    IF Truthy(max_results) THEN min(Val(max_results), LIST_TASKS_MAX_RESULTS_MAX)
    ELSE LIST_TASKS_MAX_RESULTS_DEFAULT

\* results_remaining left as it is by a page.
RemainingAfter_NotCounted(results_remaining, items) == results_remaining

\* results_remaining -= len(tasks)
RemainingAfter(results_remaining, items) == results_remaining - Len(items)

\* The test of the while loop.
MorePagesWanted(results_remaining, next_page_token) ==
    results_remaining > 0 /\ TruthyText(next_page_token)

\* The values of the maxResults parameter: the number the caller gave, and
\* str(results_remaining).
number(n) == <<"int", n>>

str(n) == <<"str", ToString(n)>>

\* result.get("items", [])
ItemsOf(result) == IF IsNone(result.items) THEN <<>> ELSE Val(result.items)

\* The service lists top-level tasks of distinct ids, with positions that
\* ascend or descend along the listing.
ListOrders == {"ascending", "descending"}

\* n as a string of two decimal digits.
TwoDigits(n) == << Digits[(n \div 10) + 1], Digits[(n % 10) + 1] >>

\* The k-th task the service lists.
ListedTask(k, order) ==
    [id |-> ToString(k), title |-> None, parent |-> None,
     position |-> IF order = "ascending" THEN Some(TwoDigits(k))
                  ELSE Some(TwoDigits(99 - k))]

\* What the service may answer to a page request when it has listed the
\* first listed tasks: up to MaxPage further tasks, or no items key, and a
\* token of the next page, an empty token or none.
ServiceResults(listed, order) ==
    [items : Opt({[k \in 1 .. n |-> ListedTask(listed + k, order)] : n \in 0 .. MaxPage}),
     nextPageToken : Opt({"", "p"})]

\* The first page is requested and counted.
ListFirstPage ==
    /\ Idle
    /\ \E max_results \in Opt(-1 .. MaxResults), page_token \in Opt({"p"}),
          order \in ListOrders :
       \E result \in ServiceResults(0, order) :
          /\ call' = [operation |-> "list", pc |-> "loop", order |-> order,
                      max_results |-> max_results,
                      tasks |-> ItemsOf(result),
                      next_page_token |-> result.nextPageToken,
                      results_remaining |->
                          RemainingAfter(ResultsWanted(max_results), ItemsOf(result))]
          /\ requests' = << [maxResults |-> IF IsNone(max_results) THEN None
                                             ELSE Some(number(Val(max_results))),
                             pageToken |-> page_token] >>
    /\ apiCalls' = 1
    /\ outcome' = "none"
    /\ reported' = None
    /\ UNCHANGED <<doc, prevDoc, sections>>

\* One iteration of the loop: the next page is requested; an empty page
\* ends the loop, any other is appended and counted.
ListNextPage ==
    /\ call.operation = "list" /\ call.pc = "loop"
    /\ MorePagesWanted(call.results_remaining, call.next_page_token)
    /\ \E result \in ServiceResults(Len(call.tasks), call.order) :
          LET more_tasks == ItemsOf(result)
          IN  call' = IF Len(more_tasks) = 0
                      THEN [call EXCEPT !.pc = "after",
                                        !.next_page_token = result.nextPageToken]
                      ELSE [call EXCEPT !.next_page_token = result.nextPageToken,
                                        !.tasks = @ \o more_tasks,
                                        !.results_remaining = RemainingAfter(@, more_tasks)]
    /\ requests' = << [maxResults |-> Some(str(call.results_remaining)),
                       pageToken |-> call.next_page_token] >>
    /\ apiCalls' = apiCalls + 1
    /\ UNCHANGED <<doc, prevDoc, outcome, reported, sections>>

\* The test of the while loop fails: the loop is left.
ListLeaveLoop ==
    /\ call.operation = "list" /\ call.pc = "loop"
    /\ ~MorePagesWanted(call.results_remaining, call.next_page_token)
    /\ call' = [call EXCEPT !.pc = "after"]
    /\ UNCHANGED <<doc, prevDoc, requests, apiCalls, outcome, reported, sections>>

\* After the loop: without a task the answer is "No tasks found" and
\* states no token; otherwise the tasks are structured and serialized, and
\* the token of the next page is stated when there is one.
ListRespond ==
    /\ call.operation = "list" /\ call.pc = "after"
    /\ call' = [call EXCEPT !.pc = "done"]
    /\ IF call.tasks = <<>>
       THEN /\ outcome' = "ok"
            /\ reported' = Some([found |-> FALSE, structured_tasks |-> <<>>,
                                 response |-> <<>>, next_page_token |-> None])
       ELSE LET objects == get_structured_tasks(call.tasks)
                text == serialize_tasks(objects, objects[RootKey].subtasks, 0)
            IN  /\ outcome' = IF text.raised THEN "raised" ELSE "ok"
                /\ reported' =
                      IF text.raised THEN None
                      ELSE Some([found |-> TRUE,
                                 structured_tasks |-> objects[RootKey].subtasks,
                                 response |-> text.response,
                                 next_page_token |-> IF TruthyText(call.next_page_token)
                                                     THEN call.next_page_token
                                                     ELSE None])
    /\ UNCHANGED <<doc, prevDoc, requests, apiCalls, sections>>

ListReturn ==
    /\ call.operation = "list" /\ call.pc = "done"
    /\ Return

NextPaging == ListFirstPage \/ ListNextPage \/ ListLeaveLoop \/ ListRespond \/ ListReturn

SpecPaging == Init /\ [][NextPaging]_vars

\* The service answers every page request and the call runs on after
\* every answer.
FairSpecPaging == SpecPaging /\ WF_vars(ListNextPage) /\ WF_vars(ListLeaveLoop)

\* ------------------------------------------------------------------------
\* Claim C29: the page loop terminates
\* ------------------------------------------------------------------------
InPageLoop == call.operation = "list" /\ call.pc = "loop"

PageLoopLeft == call.operation = "list" /\ call.pc \in {"after", "done"}

\* A step that requests a further page from within the loop.
FurtherPageRequested == InPageLoop /\ apiCalls' = apiCalls + 1

\* C29: the page loop of the list operation terminates whatever the
\* service answers: a further page is requested only while
\* results_remaining > 0 and the service gave a token of the next page, and
\* an iteration either gets an empty page and leaves the loop or lowers
\* results_remaining by at least one.
C29_PageLoopTerminates ==
    /\ [][FurtherPageRequested =>
            /\ call.results_remaining > 0
            /\ ~IsNone(call.next_page_token) /\ Val(call.next_page_token) # ""
            /\ \/ /\ Len(call'.tasks) = Len(call.tasks)
                  /\ call'.pc = "after"
               \/ /\ Len(call'.tasks) > Len(call.tasks)
                  /\ call'.results_remaining <= call.results_remaining - 1]_vars
    /\ (InPageLoop ~> PageLoopLeft)

\* A call without max_results that asked for five pages and more, and
\* left the loop because nothing remained to ask for.
C29_Witness ==
    /\ PageLoopLeft
    /\ ~Truthy(call.max_results)
    /\ apiCalls >= 5
    /\ call.results_remaining <= 0
    /\ TruthyText(call.next_page_token)

\* ------------------------------------------------------------------------
\* Updating a task (gtasks.tasks_tools.manage_task, "update")
\* ------------------------------------------------------------------------
\* In the specification SpecUpdate the variable doc holds the task as the
\* service has it, a record of title, status, notes and due, a field the
\* task lacks being None; prevDoc holds the task as it was immediately
\* before the update of the call in hand was applied. The call reads the
\* task, then writes; other writers act on the task in between.
TaskFields == {"title", "status", "notes", "due"}

\* current_task.get(field, default)
get(task, field, default) == IF IsNone(task[field]) THEN default ELSE Val(task[field])

\* The body of the update request: a field the caller gives, else the
\* field as read; notes and due are left out when neither has them.
UpdateBody(title, status, notes, due, current_task) ==
    [title |-> Some(IF ~IsNone(title) THEN Val(title) ELSE get(current_task, "title", "")),
     status |-> Some(IF ~IsNone(status) THEN Val(status)
                     ELSE get(current_task, "status", "needsAction")),
     notes |-> IF ~IsNone(notes) THEN notes
               ELSE IF TruthyText(current_task.notes) THEN current_task.notes ELSE None,
     due |-> IF ~IsNone(due) THEN due
             ELSE IF TruthyText(current_task.due) THEN current_task.due ELSE None]

\* tasks().update: the task becomes the body given.
ServiceUpdate(task, request_body) == request_body

\* The tasks the service may hold and the values a caller may give.
ServiceTasks ==
    [title : {Some("a"), Some("b")}, status : {Some("needsAction"), Some("completed")},
     notes : Opt({"n"}), due : Opt({"d"})]

InitUpdate ==
    /\ doc = [title |-> Some("a"), status |-> Some("needsAction"),
              notes |-> None, due |-> None]
    /\ prevDoc = doc
    /\ call = [operation |-> "none"]
    /\ requests = <<>>
    /\ apiCalls = 0
    /\ outcome = "none"
    /\ reported = None
    /\ sections = {}

\* The call starts: without task_id it raises, with it the current task
\* is read.
UpdateRead ==
    /\ Idle
    /\ \E task_id \in Opt({"", "t1"}), title \in Opt({"b"}), status \in Opt({"completed"}),
          notes \in Opt({"", "n"}), due \in Opt({"d"}) :
          IF ~TruthyText(task_id)
          THEN /\ call' = [operation |-> "update", pc |-> "done", task_id |-> task_id,
                           title |-> title, status |-> status, notes |-> notes,
                           due |-> due, current_task |-> None]
               /\ outcome' = "raised"
               /\ apiCalls' = 0
          ELSE /\ call' = [operation |-> "update", pc |-> "read", task_id |-> task_id,
                           title |-> title, status |-> status, notes |-> notes,
                           due |-> due, current_task |-> Some(doc)]
               /\ outcome' = "none"
               /\ apiCalls' = 1
    /\ requests' = <<>>
    /\ reported' = None
    /\ UNCHANGED <<doc, prevDoc, sections>>

\* The body is built from the task as read and the update is applied.
UpdateWrite ==
    /\ call.operation = "update" /\ call.pc = "read"
    /\ LET request_body == UpdateBody(call.title, call.status, call.notes, call.due,
                                      Val(call.current_task))
       IN  /\ requests' = << request_body >>
           /\ doc' = ServiceUpdate(doc, request_body)
           /\ reported' = Some(ServiceUpdate(doc, request_body))
    /\ prevDoc' = doc
    /\ call' = [call EXCEPT !.pc = "done"]
    /\ apiCalls' = apiCalls + 1
    /\ outcome' = "ok"
    /\ UNCHANGED sections

\* Another writer changes the task, before the call reads it or between
\* the call's read and its write.
OtherWriter ==
    /\ IF Idle THEN TRUE ELSE call.pc = "read"
    /\ \E task \in ServiceTasks :
          /\ task # doc
          /\ doc' = task
    /\ UNCHANGED <<prevDoc, call, requests, apiCalls, outcome, reported, sections>>

UpdateReturn ==
    /\ call.operation = "update" /\ call.pc = "done"
    /\ call' = [operation |-> "none"]
    /\ requests' = <<>>
    /\ apiCalls' = 0
    /\ outcome' = "none"
    /\ reported' = None
    /\ prevDoc' = doc
    /\ UNCHANGED <<doc, sections>>

NextUpdate == UpdateRead \/ UpdateWrite \/ OtherWriter \/ UpdateReturn

SpecUpdate == InitUpdate /\ [][NextUpdate]_vars

\* ------------------------------------------------------------------------
\* Claim C30: the update keeps the fields the caller leaves unset
\* ------------------------------------------------------------------------
UpdateApplied == call.operation = "update" /\ call.pc = "done" /\ outcome = "ok"

\* C30: every field of title, status, notes and due that the caller of
\* the update leaves unset has, after the update is applied, the value it
\* had on the service immediately before the update was applied, also when
\* another writer changed the task between the call's read and its write.
C30_UnsetFieldsKeepServiceValue ==
    UpdateApplied =>
        \A field \in TaskFields :
            IsNone(call[field]) => Val(reported)[field] = prevDoc[field]

====
